---- MODULE Spec2Model ----
(***************************************************************************)
(* Model of the data-contract editor of src/src/main.rs: the typed tree    *)
(* (document types, properties, nested properties, indices), the exporter  *)
(* generate_json_object, the importer parse_imported_json, the validator   *)
(* adapter validate, the message handlers of Model::update and the LLM     *)
(* round trip of GenerateSchema, call_openai and ReceiveSchema.            *)
(*                                                                         *)
(* Representation.                                                         *)
(*   Option<T>   None is <<>>, Some(v) is <<v>>.                           *)
(*   Vec<T>      a sequence.                                               *)
(*   JSON value  a record [k, v]: k the kind ("str", "num", "bool", "arr", *)
(*               "obj"), v the payload; an object's payload is the         *)
(*               sequence of its <<key, value>> entries in map order.      *)
(*   integer     a record [hi, lo] standing for hi * 2^31 + lo, with       *)
(*               0 <= lo < 2^31: TLC's integers are 32 bits wide and the   *)
(*               importer reads 64-bit ones.                               *)
(*   JSON text   a record [empty, valid, entries]: whether the string is   *)
(*               "", whether it parses as a JSON mapping, and the          *)
(*               top-level "key":value entries as written, duplicates of   *)
(*               a key included.                                           *)
(***************************************************************************)
EXTENDS Integers, Sequences, FiniteSets, TLC

VARIABLES document_types, json_object, imported_json, error_messages,
          prompt, schema, temp_prompt, history, loading, error_messages_ai,
          requests, \* the calls of call_openai that have not returned: the prompt each was given
          queue,    \* the messages send_message has queued for the component
          received, \* the results the callback has emitted so far, oldest first
          panicked  \* a handler has panicked: the component is dead

vars == <<document_types, json_object, imported_json, error_messages,
          prompt, schema, temp_prompt, history, loading, error_messages_ai,
          requests, queue, received, panicked>>

llm_vars == <<requests, queue, received>>

ai_vars == <<prompt, temp_prompt, history, loading, llm_vars, panicked>>

(***************************************************************************)
(* Bounds of the model.                                                    *)
(***************************************************************************)
MaxDocs == 2
MaxProps == 2
MaxRecProps == 1
MaxIndices == 1
MaxIndexProps == 2
MaxErrs == 2
MaxRequests == 2
MaxContent == 3

(***************************************************************************)
(* Input alphabets.                                                        *)
(***************************************************************************)
Names == {"", "a"}
Texts == {"", "x"}
Num(n) == [hi |-> 0, lo |-> n]
Numbers == {Num(1)}
DataTypes == {"String", "Integer", "Array", "Object", "Number", "Boolean"}

(***************************************************************************)
(* Option and Vec helpers.                                                 *)
(***************************************************************************)
None == <<>>
Some(v) == <<v>>
IsSome(o) == Len(o) > 0
Unwrap(o) == o[1]

Contains(s, x) == \E i \in 1..Len(s) : s[i] = x
Retain(s, x) == SelectSeq(s, LAMBDA y : y /= x)
RemoveAt(s, i) == SubSeq(s, 1, i - 1) \o SubSeq(s, i + 1, Len(s))
Position(s, x) == IF Contains(s, x) THEN CHOOSE i \in 1..Len(s) : s[i] = x /\ \A j \in 1..(i - 1) : s[j] /= x ELSE 0
StrLen(o) == IF IsSome(o) /\ Unwrap(o) /= "" THEN 1 ELSE 0

(***************************************************************************)
(* JSON values and serde_json::Map (insertion ordered; insert of a key     *)
(* that is present replaces its value in place).                           *)
(***************************************************************************)
JStr(s) == [k |-> "str", v |-> s]
JNum(n) == [k |-> "num", v |-> n]
JBool(b) == [k |-> "bool", v |-> b]
JArr(items) == [k |-> "arr", v |-> items]
JObj(entries) == [k |-> "obj", v |-> entries]

KeyIndex(m, key) == IF \E i \in 1..Len(m) : m[i][1] = key THEN CHOOSE i \in 1..Len(m) : m[i][1] = key /\ \A j \in 1..(i - 1) : m[j][1] /= key ELSE 0
MapInsert(m, key, val) == IF KeyIndex(m, key) = 0 THEN Append(m, <<key, val>>) ELSE [m EXCEPT ![KeyIndex(m, key)] = <<key, val>>]
MapGet(m, key) == IF KeyIndex(m, key) = 0 THEN None ELSE Some(m[KeyIndex(m, key)][2])
InsertIf(m, cond, key, val) == IF cond THEN MapInsert(m, key, val) ELSE m

RECURSIVE MapFromEntries(_)
MapFromEntries(entries) == IF entries = <<>> THEN <<>> ELSE MapInsert(MapFromEntries(SubSeq(entries, 1, Len(entries) - 1)), entries[Len(entries)][1], entries[Len(entries)][2])

StrArr(names) == JArr([i \in 1..Len(names) |-> JStr(names[i])])

(***************************************************************************)
(* The typed tree.                                                         *)
(***************************************************************************)
PropertyDefault == [name |-> "", data_type |-> "String", required |-> FALSE, description |-> None, comment |-> None, min_length |-> None, max_length |-> None, pattern |-> None, format |-> None, minimum |-> None, maximum |-> None, byte_array |-> None, min_items |-> None, max_items |-> None, content_media_type |-> None, properties |-> None, min_properties |-> None, max_properties |-> None, rec_required |-> None, additional_properties |-> None]

DocumentTypeDefault == [name |-> "", properties |-> <<>>, indices |-> <<>>, required |-> <<>>, created_at_required |-> FALSE, updated_at_required |-> FALSE, additionalProperties |-> FALSE, comment |-> ""]

IndexPropertiesDefault == <<"", "asc">>

IndexDefault == [name |-> "", properties |-> <<>>, unique |-> FALSE]

default_additional_properties(data_type) == IF data_type = "Array" THEN [PropertyDefault EXCEPT !.data_type = "Array", !.byte_array = Some(TRUE)] ELSE [PropertyDefault EXCEPT !.data_type = data_type]

TypeName(data_type) == CASE data_type = "String" -> "string" [] data_type = "Integer" -> "integer" [] data_type = "Array" -> "array" [] data_type = "Object" -> "object" [] data_type = "Number" -> "number" [] data_type = "Boolean" -> "boolean"

(***************************************************************************)
(* Exporter: generate_nested_properties and generate_json_object.  Both    *)
(* write JSON and, while walking, update the stored `required` lists.      *)
(***************************************************************************)
RecPropertyBody(rec_prop) ==
    LET m0 == <<<<"type", JStr(TypeName(rec_prop.data_type))>>>>
        m1 == InsertIf(m0, StrLen(rec_prop.description) > 0, "description", JStr(Unwrap(rec_prop.description)))
        m2 == InsertIf(m1, IsSome(rec_prop.min_length), "minLength", JNum(Unwrap(rec_prop.min_length)))
        m3 == InsertIf(m2, IsSome(rec_prop.max_length), "maxLength", JNum(Unwrap(rec_prop.max_length)))
        m4 == InsertIf(m3, StrLen(rec_prop.pattern) > 0, "pattern", JStr(Unwrap(rec_prop.pattern)))
        m5 == InsertIf(m4, StrLen(rec_prop.format) > 0, "format", JStr(Unwrap(rec_prop.format)))
        m6 == InsertIf(m5, IsSome(rec_prop.minimum), "minimum", JNum(Unwrap(rec_prop.minimum)))
        m7 == InsertIf(m6, IsSome(rec_prop.maximum), "maximum", JNum(Unwrap(rec_prop.maximum)))
        m8 == InsertIf(m7, IsSome(rec_prop.byte_array), "byteArray", JBool(Unwrap(rec_prop.byte_array)))
        m9 == InsertIf(m8, IsSome(rec_prop.min_items), "minItems", JNum(Unwrap(rec_prop.min_items)))
        m10 == InsertIf(m9, IsSome(rec_prop.max_items), "maxItems", JNum(Unwrap(rec_prop.max_items)))
        m11 == InsertIf(m10, StrLen(rec_prop.content_media_type) > 0, "contentMediaType", JStr(Unwrap(rec_prop.content_media_type)))
        m12 == InsertIf(m11, rec_prop.data_type = "Object", "properties", JObj(<<<<"some_property", JObj(<<<<"type", JStr("string")>>>>)>>>>))
        m13 == InsertIf(m12, IsSome(rec_prop.min_properties), "minProperties", JNum(Unwrap(rec_prop.min_properties)))
        m14 == InsertIf(m13, IsSome(rec_prop.max_properties), "maxProperties", JNum(Unwrap(rec_prop.max_properties)))
        m15 == InsertIf(m14, rec_prop.data_type = "Object", "additionalProperties", JBool(FALSE))
        m16 == InsertIf(m15, StrLen(rec_prop.comment) > 0, "$comment", JStr(Unwrap(rec_prop.comment)))
    IN  JObj(m16)

RecRequiredStep(rec_required, rec_prop) ==
    IF rec_prop.required
    THEN IF ~ Contains(IF IsSome(rec_required) THEN Unwrap(rec_required) ELSE <<>>, rec_prop.name)
         THEN Some(Append(IF IsSome(rec_required) THEN Unwrap(rec_required) ELSE <<>>, rec_prop.name))
         ELSE rec_required
    ELSE IF IsSome(rec_required) /\ Contains(Unwrap(rec_required), rec_prop.name)
         THEN Some(Retain(Unwrap(rec_required), rec_prop.name))
         ELSE rec_required

RECURSIVE NestedWalk(_, _, _)
NestedWalk(nested_props, rec_props_map, rec_required) ==
    IF nested_props = <<>>
    THEN [map |-> rec_props_map, rec_required |-> rec_required]
    ELSE NestedWalk(Tail(nested_props),
                    MapInsert(rec_props_map, Head(nested_props).name, RecPropertyBody(Head(nested_props))),
                    RecRequiredStep(rec_required, Head(nested_props)))

generate_nested_properties(prop) ==
    IF IsSome(prop.properties)
    THEN NestedWalk(Unwrap(prop.properties), <<>>, prop.rec_required)
    ELSE [map |-> <<>>, rec_required |-> prop.rec_required]

PropertyAfterExport(prop) ==
    IF prop.data_type = "Object"
    THEN [prop EXCEPT !.rec_required = generate_nested_properties(prop).rec_required]
    ELSE prop

ContentMediaTypeEmitted(prop) == IsSome(prop.content_media_type)

RecRequiredEmitted(prop) == IsSome(prop.rec_required) /\ Len(Unwrap(prop.rec_required)) > 0

PropertyJson(prop, nested_map) ==
    LET m0 == <<<<"type", JStr(TypeName(prop.data_type))>>>>
        m1 == InsertIf(m0, StrLen(prop.description) > 0, "description", JStr(Unwrap(prop.description)))
        m2 == InsertIf(m1, IsSome(prop.min_length), "minLength", JNum(Unwrap(prop.min_length)))
        m3 == InsertIf(m2, IsSome(prop.max_length), "maxLength", JNum(Unwrap(prop.max_length)))
        m4 == InsertIf(m3, StrLen(prop.pattern) > 0, "pattern", JStr(Unwrap(prop.pattern)))
        m5 == InsertIf(m4, StrLen(prop.format) > 0, "format", JStr(Unwrap(prop.format)))
        m6 == InsertIf(m5, IsSome(prop.minimum), "minimum", JNum(Unwrap(prop.minimum)))
        m7 == InsertIf(m6, IsSome(prop.maximum), "maximum", JNum(Unwrap(prop.maximum)))
        m8 == InsertIf(m7, IsSome(prop.byte_array), "byteArray", JBool(Unwrap(prop.byte_array)))
        m9 == InsertIf(m8, IsSome(prop.min_items), "minItems", JNum(Unwrap(prop.min_items)))
        m10 == InsertIf(m9, IsSome(prop.max_items), "maxItems", JNum(Unwrap(prop.max_items)))
        m11 == InsertIf(m10, ContentMediaTypeEmitted(prop), "contentMediaType", JStr(Unwrap(prop.content_media_type)))
        m12 == InsertIf(m11, prop.data_type = "Object", "properties", JObj(nested_map))
        m13 == InsertIf(m12, IsSome(prop.min_properties), "minProperties", JNum(Unwrap(prop.min_properties)))
        m14 == InsertIf(m13, IsSome(prop.max_properties), "maxProperties", JNum(Unwrap(prop.max_properties)))
        m15 == InsertIf(m14, RecRequiredEmitted(prop), "required", StrArr(Unwrap(prop.rec_required)))
        m16 == InsertIf(m15, prop.data_type = "Object", "additionalProperties", JBool(FALSE))
        m17 == InsertIf(m16, StrLen(prop.comment) > 0, "$comment", JStr(Unwrap(prop.comment)))
    IN  JObj(m17)

PropertyBody(prop) == PropertyJson(PropertyAfterExport(prop), generate_nested_properties(prop).map)

RequiredStep(required, prop) ==
    IF prop.required
    THEN IF ~ Contains(required, prop.name) THEN Append(required, prop.name) ELSE required
    ELSE IF Contains(required, prop.name) THEN Retain(required, prop.name) ELSE required

RECURSIVE PropertiesWalk(_, _, _)
PropertiesWalk(properties, props_map, required) ==
    IF properties = <<>>
    THEN [map |-> props_map, required |-> required]
    ELSE PropertiesWalk(Tail(properties),
                        MapInsert(props_map, Head(properties).name, PropertyBody(Head(properties))),
                        RequiredStep(required, Head(properties)))

SystemRequiredStep(required, flag, name) ==
    LET r1 == IF flag /\ ~ Contains(required, name) THEN Append(required, name) ELSE required
    IN  IF Contains(r1, name) /\ ~ flag THEN Retain(r1, name) ELSE r1

IndexPropertyJson(inner_tuple) == JObj(<<<<inner_tuple[1], JStr(inner_tuple[2])>>>>)

IndexJson(index) ==
    LET base == <<<<"name", JStr(index.name)>>,
                  <<"properties", JArr([i \in 1..Len(index.properties) |-> IndexPropertyJson(index.properties[i])])>>>>
    IN  JObj(IF index.unique THEN Append(base, <<"unique", JBool(index.unique)>>) ELSE base)

DocumentRequired(walked_required, doc_type) ==
    SystemRequiredStep(SystemRequiredStep(walked_required, doc_type.created_at_required, "$createdAt"),
                       doc_type.updated_at_required, "$updatedAt")

DocumentJson(walk, required, doc_type) ==
    LET m0 == <<<<"type", JStr("object")>>, <<"properties", JObj(walk.map)>>>>
        m1 == InsertIf(m0, doc_type.indices /= <<>>, "indices", JArr([i \in 1..Len(doc_type.indices) |-> IndexJson(doc_type.indices[i])]))
        m2 == InsertIf(m1, required /= <<>>, "required", StrArr(required))
        m3 == MapInsert(m2, "additionalProperties", JBool(FALSE))
        m4 == InsertIf(m3, doc_type.comment /= "", "$comment", JStr(doc_type.comment))
    IN  JObj(m4)

DocumentWalked(walk, doc_type) ==
    [body |-> DocumentJson(walk, DocumentRequired(walk.required, doc_type), doc_type),
     doc_type |-> [doc_type EXCEPT !.properties = [i \in 1..Len(doc_type.properties) |-> PropertyAfterExport(doc_type.properties[i])],
                                   !.required = DocumentRequired(walk.required, doc_type)]]

DocumentExport(doc_type) == DocumentWalked(PropertiesWalk(doc_type.properties, <<>>, doc_type.required), doc_type)

DocumentAfterExport(doc_type) == DocumentExport(doc_type).doc_type

DocumentBody(doc_type) == DocumentExport(doc_type).body

\* The value returned (json_arr), the tree as the walk leaves it, and self.schema.
generate_json_object(doc_types) ==
    [json_arr |-> [i \in 1..Len(doc_types) |-> <<doc_types[i].name, DocumentExport(doc_types[i]).body>>],
     document_types |-> [i \in 1..Len(doc_types) |-> DocumentExport(doc_types[i]).doc_type]]

(***************************************************************************)
(* Importer: parse_imported_json.  serde_json accessors first.             *)
(***************************************************************************)
as_str(value) == IF value.k = "str" THEN Some(value.v) ELSE None
as_bool(value) == IF value.k = "bool" THEN Some(value.v) ELSE None
as_array(value) == IF value.k = "arr" THEN Some(value.v) ELSE None
as_object(value) == IF value.k = "obj" THEN Some(value.v) ELSE None
\* Floats are not modelled; every integer written fits 64 bits.
as_u64(value) == IF value.k = "num" /\ value.v.hi >= 0 THEN Some(value.v) ELSE None
as_i64(value) == IF value.k = "num" THEN Some(value.v) ELSE None

\* `num as u32` and `num as i32` keep the low 32 bits: bit 31 is hi's parity.
\* As u32 the result is (hi % 2) * 2^31 + lo; as i32 it is lo - 2^31 when
\* bit 31 is set.
AsU32(o) == IF IsSome(o) THEN Some([hi |-> Unwrap(o).hi % 2, lo |-> Unwrap(o).lo]) ELSE None
AsI32(o) == IF IsSome(o) THEN Some([hi |-> 0 - (Unwrap(o).hi % 2), lo |-> Unwrap(o).lo]) ELSE None

GetStr(obj, key, old) == IF IsSome(MapGet(obj, key)) THEN as_str(Unwrap(MapGet(obj, key))) ELSE old
GetBool(obj, key, old) == IF IsSome(MapGet(obj, key)) THEN as_bool(Unwrap(MapGet(obj, key))) ELSE old
GetU32(obj, key, old) == IF IsSome(MapGet(obj, key)) THEN AsU32(as_u64(Unwrap(MapGet(obj, key)))) ELSE old
GetI32(obj, key, old) == IF IsSome(MapGet(obj, key)) THEN AsI32(as_i64(Unwrap(MapGet(obj, key)))) ELSE old

\* The match on "type"; a value that is no string, or no known name, panics.
DataTypeOf(name) ==
    CASE name = "string" -> "String" [] name = "integer" -> "Integer" [] name = "array" -> "Array"
      [] name = "object" -> "Object" [] name = "number" -> "Number" [] name = "boolean" -> "Boolean"

\* A lookup that also takes a "required" string equal to the name.
InRequiredValue(obj, name) ==
    /\ IsSome(MapGet(obj, "required"))
    /\ \/ /\ IsSome(as_str(Unwrap(MapGet(obj, "required"))))
          /\ Unwrap(as_str(Unwrap(MapGet(obj, "required")))) = name
       \/ /\ IsSome(as_array(Unwrap(MapGet(obj, "required"))))
          /\ Contains(Unwrap(as_array(Unwrap(MapGet(obj, "required")))), JStr(name))

\* required_array.iter().any(|v| *v == Value::String(name)), false when the
\* parent has no "required" key or it is not an array.
InRequiredArray(obj, name) ==
    /\ IsSome(MapGet(obj, "required"))
    /\ IsSome(as_array(Unwrap(MapGet(obj, "required"))))
    /\ Contains(Unwrap(as_array(Unwrap(MapGet(obj, "required")))), JStr(name))

\* The fields both levels copy from a property body.
ImportedFields(property, prop_obj) ==
    [property EXCEPT
        !.data_type = IF IsSome(MapGet(prop_obj, "type")) THEN DataTypeOf(Unwrap(as_str(Unwrap(MapGet(prop_obj, "type"))))) ELSE @,
        !.byte_array = GetBool(prop_obj, "byteArray", @),
        !.description = GetStr(prop_obj, "description", @),
        !.comment = GetStr(prop_obj, "$comment", @),
        !.min_length = GetU32(prop_obj, "minLength", @),
        !.max_length = GetU32(prop_obj, "maxLength", @),
        !.pattern = GetStr(prop_obj, "pattern", @),
        !.format = GetStr(prop_obj, "format", @),
        !.minimum = GetI32(prop_obj, "minimum", @),
        !.maximum = GetI32(prop_obj, "maximum", @),
        !.min_items = GetU32(prop_obj, "minItems", @),
        !.max_items = GetU32(prop_obj, "maxItems", @),
        !.content_media_type = GetStr(prop_obj, "contentMediaType", @),
        !.min_properties = GetU32(prop_obj, "minProperties", @),
        !.max_properties = GetU32(prop_obj, "maxProperties", @)]

\* A nested entry is pushed only when its value is an object.
RECURSIVE ImportNested(_, _)
ImportNested(nested_props_map, prop_obj) ==
    IF nested_props_map = <<>>
    THEN <<>>
    ELSE LET nested_prop_name == Head(nested_props_map)[1]
             nested_prop_value == Head(nested_props_map)[2]
             nested_property == [PropertyDefault EXCEPT !.name = nested_prop_name,
                                                        !.required = InRequiredArray(prop_obj, nested_prop_name)]
         IN  (IF IsSome(as_object(nested_prop_value))
              THEN <<ImportedFields(nested_property, nested_prop_value.v)>>
              ELSE <<>>) \o ImportNested(Tail(nested_props_map), prop_obj)

ImportProperty(prop_name, prop_value, doc_type_obj) ==
    LET property == [PropertyDefault EXCEPT !.name = prop_name, !.required = InRequiredArray(doc_type_obj, prop_name)]
    IN  IF IsSome(as_object(prop_value))
        THEN LET prop_obj == prop_value.v
                 p1 == ImportedFields(property, prop_obj)
             IN  IF IsSome(MapGet(prop_obj, "properties")) /\ IsSome(as_object(Unwrap(MapGet(prop_obj, "properties"))))
                 THEN [p1 EXCEPT !.properties = Some(ImportNested(Unwrap(MapGet(prop_obj, "properties")).v, prop_obj))]
                 ELSE p1
        ELSE property

\* for (name, order) in prop_obj: the last entry of the object wins.
RECURSIVE ImportIndexProperty(_, _)
ImportIndexProperty(index_properties, prop_obj) ==
    IF prop_obj = <<>>
    THEN index_properties
    ELSE ImportIndexProperty(<<Head(prop_obj)[1], Unwrap(as_str(Head(prop_obj)[2]))>>, Tail(prop_obj))

RECURSIVE ImportIndexProperties(_)
ImportIndexProperties(properties_array) ==
    IF properties_array = <<>>
    THEN <<>>
    ELSE (IF IsSome(as_object(Head(properties_array)))
          THEN <<ImportIndexProperty(IndexPropertiesDefault, Head(properties_array).v)>>
          ELSE <<>>) \o ImportIndexProperties(Tail(properties_array))

ImportIndex(index_obj) ==
    [name |-> IF IsSome(MapGet(index_obj, "name")) THEN Unwrap(as_str(Unwrap(MapGet(index_obj, "name")))) ELSE "",
     unique |-> IF IsSome(MapGet(index_obj, "unique")) THEN Unwrap(as_bool(Unwrap(MapGet(index_obj, "unique")))) ELSE FALSE,
     properties |-> IF IsSome(MapGet(index_obj, "properties")) /\ IsSome(as_array(Unwrap(MapGet(index_obj, "properties"))))
                    THEN ImportIndexProperties(Unwrap(MapGet(index_obj, "properties")).v)
                    ELSE <<>>]

RECURSIVE ImportIndices(_)
ImportIndices(indices_array) ==
    IF indices_array = <<>>
    THEN <<>>
    ELSE (IF IsSome(as_object(Head(indices_array))) THEN <<ImportIndex(Head(indices_array).v)>> ELSE <<>>)
         \o ImportIndices(Tail(indices_array))

\* The "$comment" of a document body is read inside the branch taken when
\* the body has an "indices" key.
ImportedComment(doc_type_obj) ==
    IF IsSome(MapGet(doc_type_obj, "indices")) /\ IsSome(MapGet(doc_type_obj, "$comment"))
    THEN Unwrap(as_str(Unwrap(MapGet(doc_type_obj, "$comment"))))
    ELSE ""

ImportDocument(doc_type_name, doc_type_obj) ==
    LET has_required == IsSome(MapGet(doc_type_obj, "required")) /\ IsSome(as_array(Unwrap(MapGet(doc_type_obj, "required"))))
        properties_obj == IF IsSome(MapGet(doc_type_obj, "properties")) /\ IsSome(as_object(Unwrap(MapGet(doc_type_obj, "properties"))))
                          THEN Unwrap(MapGet(doc_type_obj, "properties")).v
                          ELSE <<>>
    IN  [DocumentTypeDefault EXCEPT
            !.name = doc_type_name,
            !.created_at_required = has_required /\ InRequiredArray(doc_type_obj, "$createdAt"),
            !.updated_at_required = has_required /\ InRequiredArray(doc_type_obj, "$updatedAt"),
            !.properties = [i \in 1..Len(properties_obj) |-> ImportProperty(properties_obj[i][1], properties_obj[i][2], doc_type_obj)],
            !.indices = IF IsSome(MapGet(doc_type_obj, "indices")) /\ IsSome(as_array(Unwrap(MapGet(doc_type_obj, "indices"))))
                        THEN ImportIndices(Unwrap(MapGet(doc_type_obj, "indices")).v)
                        ELSE <<>>,
            !.comment = ImportedComment(doc_type_obj)]

\* serde_json::from_str::<HashMap<String, Value>>(..).unwrap_or_default():
\* one value per key, the last one written; no entry when the text does not
\* parse.  A HashMap iterates in an order of its own: `order` is that order.
\* A parser that keeps the entries read before the failure.
ParsedPrefix(text) == MapFromEntries(text.entries)

ParsedEntries(text) == IF text.valid THEN MapFromEntries(text.entries) ELSE <<>>

Orders(n) == {f \in [1..n -> 1..n] : \A i, j \in 1..n : f[i] = f[j] => i = j}

RECURSIVE ImportDocuments(_)
ImportDocuments(parsed_json) ==
    IF parsed_json = <<>>
    THEN <<>>
    ELSE (IF IsSome(as_object(Head(parsed_json)[2]))
          THEN <<ImportDocument(Head(parsed_json)[1], Head(parsed_json)[2].v)>>
          ELSE <<>>) \o ImportDocuments(Tail(parsed_json))

parse_imported_json(text, order) ==
    LET parsed == ParsedEntries(text)
        parsed_json == [i \in 1..Len(parsed) |-> parsed[order[i]]]
    IN  [json_object |-> parsed_json, document_types |-> ImportDocuments(parsed_json)]

(***************************************************************************)
(* The panics of parse_imported_json: the unwrap() of an as_str() or       *)
(* as_bool() that is None, and the `_ => panic!` arm of the match on       *)
(* "type".  A panic ends the handler where it stands.                      *)
(***************************************************************************)
KnownTypeNames == {"string", "integer", "array", "object", "number", "boolean"}

TypePanics(prop_obj) ==
    /\ IsSome(MapGet(prop_obj, "type"))
    /\ \/ ~ IsSome(as_str(Unwrap(MapGet(prop_obj, "type"))))
       \/ Unwrap(as_str(Unwrap(MapGet(prop_obj, "type")))) \notin KnownTypeNames

NestedPanics(prop_obj) ==
    /\ IsSome(MapGet(prop_obj, "properties"))
    /\ IsSome(as_object(Unwrap(MapGet(prop_obj, "properties"))))
    /\ \E i \in 1..Len(Unwrap(MapGet(prop_obj, "properties")).v) :
            /\ IsSome(as_object(Unwrap(MapGet(prop_obj, "properties")).v[i][2]))
            /\ TypePanics(Unwrap(MapGet(prop_obj, "properties")).v[i][2].v)

PropertyPanics(prop_value) ==
    /\ IsSome(as_object(prop_value))
    /\ TypePanics(prop_value.v) \/ NestedPanics(prop_value.v)

IndexPropertyPanics(prop_value) ==
    /\ IsSome(as_object(prop_value))
    /\ \E i \in 1..Len(prop_value.v) : ~ IsSome(as_str(prop_value.v[i][2]))

IndexPanics(index_value) ==
    /\ IsSome(as_object(index_value))
    /\ \/ IsSome(MapGet(index_value.v, "name")) /\ ~ IsSome(as_str(Unwrap(MapGet(index_value.v, "name"))))
       \/ IsSome(MapGet(index_value.v, "unique")) /\ ~ IsSome(as_bool(Unwrap(MapGet(index_value.v, "unique"))))
       \/ /\ IsSome(MapGet(index_value.v, "properties"))
          /\ IsSome(as_array(Unwrap(MapGet(index_value.v, "properties"))))
          /\ \E i \in 1..Len(Unwrap(MapGet(index_value.v, "properties")).v) :
                IndexPropertyPanics(Unwrap(MapGet(index_value.v, "properties")).v[i])

DocumentPanics(doc_type_value) ==
    /\ IsSome(as_object(doc_type_value))
    /\ \/ /\ IsSome(MapGet(doc_type_value.v, "properties"))
          /\ IsSome(as_object(Unwrap(MapGet(doc_type_value.v, "properties"))))
          /\ \E i \in 1..Len(Unwrap(MapGet(doc_type_value.v, "properties")).v) :
                PropertyPanics(Unwrap(MapGet(doc_type_value.v, "properties")).v[i][2])
       \/ /\ IsSome(MapGet(doc_type_value.v, "indices"))
          /\ IsSome(as_array(Unwrap(MapGet(doc_type_value.v, "indices"))))
          /\ \E i \in 1..Len(Unwrap(MapGet(doc_type_value.v, "indices")).v) :
                IndexPanics(Unwrap(MapGet(doc_type_value.v, "indices")).v[i])
       \/ /\ IsSome(MapGet(doc_type_value.v, "indices"))
          /\ IsSome(MapGet(doc_type_value.v, "$comment"))
          /\ ~ IsSome(as_str(Unwrap(MapGet(doc_type_value.v, "$comment"))))

\* Whether the loop over parsed_json panics, and at which entry.
ImportPanics(parsed_json) == \E i \in 1..Len(parsed_json) : DocumentPanics(parsed_json[i][2])

PanicPoint(parsed_json) ==
    CHOOSE i \in 1..Len(parsed_json) :
        DocumentPanics(parsed_json[i][2]) /\ \A j \in 1..(i - 1) : ~ DocumentPanics(parsed_json[j][2])

\* Model as the panic leaves it: json_object is assigned before the loop,
\* document_types holds the document types pushed before the panic.
parse_until_panic(text, order) ==
    LET parsed == ParsedEntries(text)
        parsed_json == [i \in 1..Len(parsed) |-> parsed[order[i]]]
    IN  [json_object |-> parsed_json,
         document_types |-> ImportDocuments(SubSeq(parsed_json, 1, PanicPoint(parsed_json) - 1))]

EmptyString == [empty |-> TRUE, valid |-> FALSE, entries |-> <<>>]
JsonText(entries) == [empty |-> FALSE, valid |-> TRUE, entries |-> entries]

Init == /\ document_types = <<DocumentTypeDefault>>
        /\ json_object = <<>>
        /\ imported_json = EmptyString
        /\ error_messages = <<>>
        /\ prompt = ""
        /\ schema = EmptyString
        /\ temp_prompt = None
        /\ history = <<>>
        /\ loading = FALSE
        /\ error_messages_ai = <<>>
        /\ requests = <<>>
        /\ queue = <<>>
        /\ received = <<>>
        /\ panicked = FALSE

(***************************************************************************)
(* Validator adapter: validate and extract_basic_error_messages.  The      *)
(* platform validator is external: its answer to one call is an input,     *)
(* either a construction error or a list of consensus errors.  A message   *)
(* string is a record [kind, summary, path].                               *)
(***************************************************************************)
ItemsSummary == "\"items\" is a required property"

ConsensusErrors ==
    {[basic |-> TRUE, schema |-> TRUE, summary |-> ItemsSummary, path |-> "/p"],
     [basic |-> TRUE, schema |-> TRUE, summary |-> "other", path |-> "/p"],
     [basic |-> TRUE, schema |-> FALSE, summary |-> "basic", path |-> ""],
     [basic |-> FALSE, schema |-> FALSE, summary |-> "signature", path |-> ""]}

ErrorLists == UNION {[1..n -> ConsensusErrors] : n \in 0..MaxErrs}

ValidatorAnswers ==
    {[ok |-> TRUE, errors |-> errors, e |-> ""] : errors \in ErrorLists}
        \cup {[ok |-> FALSE, errors |-> <<>>, e |-> "construction"]}

ValidatorPasses == [ok |-> TRUE, errors |-> <<>>, e |-> ""]

ConstructionError == [ok |-> FALSE, errors |-> <<>>, e |-> "construction"]

\* The validator passes the contract or fails to construct it.
ConstructionAnswers == {ValidatorPasses, ConstructionError}

\* filter_map of extract_basic_error_messages: Some(message) or None.
BasicErrorMessage(error) ==
    IF error.basic
    THEN IF error.schema
         THEN IF error.summary = ItemsSummary
              THEN Some([kind |-> "ByteArrayGuidance", summary |-> "", path |-> ""])
              ELSE Some([kind |-> "JsonSchemaError", summary |-> error.summary, path |-> error.path])
         ELSE Some([kind |-> "BasicError", summary |-> error.summary, path |-> ""])
    ELSE None

\* The HashSet the messages are collected into.
MessageSet(errors) ==
    {Unwrap(BasicErrorMessage(errors[i])) : i \in {j \in 1..Len(errors) : IsSome(BasicErrorMessage(errors[j]))}}

\* The Vecs a HashSet can be collected into: each element once, any order.
VecsOf(set) ==
    {f \in [1..Cardinality(set) -> set] : \A i, j \in 1..Cardinality(set) : f[i] = f[j] => i = j}

extract_basic_error_messages(errors) == VecsOf(MessageSet(errors))

ConstructionMessage(e) == [kind |-> "Construction", summary |-> e, path |-> ""]

\* A validate that drops the construction error.
ValidateAiKept(ai, answer) == ai

\* error_messages_ai as validate leaves it.
ValidateAiMessages(ai, answer) == IF answer.ok THEN ai ELSE Append(ai, ConstructionMessage(answer.e))

\* The Vecs validate can return.
validate(ai, answer) ==
    IF answer.ok THEN extract_basic_error_messages(answer.errors) ELSE {ValidateAiMessages(ai, answer)}

(***************************************************************************)
(* Message handlers of Model::update.  Indices are 1-based.  A guard that  *)
(* names the view gives the condition under which the view renders the     *)
(* control that sends the message.                                         *)
(***************************************************************************)
others == <<json_object, imported_json, error_messages, schema, error_messages_ai, ai_vars>>

DocIndices == 1..Len(document_types)
PropIndices(d) == 1..Len(document_types[d].properties)
RecProps(d, p) == IF IsSome(document_types[d].properties[p].properties) THEN Unwrap(document_types[d].properties[p].properties) ELSE <<>>
RecIndices(d, p) == 1..Len(RecProps(d, p))
IndexIndices(d) == 1..Len(document_types[d].indices)
HasProp(d, p) == d \in DocIndices /\ p \in PropIndices(d)
HasPropOfType(d, p, t) == HasProp(d, p) /\ document_types[d].properties[p].data_type = t
\* view_recursive_property is rendered for the nested properties of an Object property.
HasRec(d, p, r) == HasPropOfType(d, p, "Object") /\ r \in RecIndices(d, p)
HasRecOfType(d, p, r, t) == HasRec(d, p, r) /\ RecProps(d, p)[r].data_type = t

SetProperty(d, p, property) ==
    /\ document_types' = [document_types EXCEPT ![d].properties[p] = property]
    /\ UNCHANGED others

SetRecProperty(d, p, r, rec_property) ==
    /\ document_types' = [document_types EXCEPT ![d].properties[p].properties = Some([Unwrap(@) EXCEPT ![r] = rec_property])]
    /\ UNCHANGED others

AddDocumentType ==
    /\ Len(document_types) < MaxDocs
    /\ document_types' = Append(document_types, [DocumentTypeDefault EXCEPT !.properties = <<PropertyDefault>>])
    /\ UNCHANGED others

AddProperty(index) ==
    /\ index \in DocIndices
    /\ Len(document_types[index].properties) < MaxProps
    /\ document_types' = [document_types EXCEPT ![index].properties = Append(@, PropertyDefault)]
    /\ UNCHANGED others

AddIndex(index) ==
    /\ index \in DocIndices
    /\ Len(document_types[index].indices) < MaxIndices
    /\ document_types' = [document_types EXCEPT ![index].indices = Append(@, [IndexDefault EXCEPT !.properties = <<IndexPropertiesDefault>>])]
    /\ UNCHANGED others

RemoveDocumentType(index) ==
    /\ index \in DocIndices
    /\ document_types' = RemoveAt(document_types, index)
    /\ UNCHANGED others

RequiredAfterRemove(required, name) ==
    IF Position(required, name) /= 0 THEN RemoveAt(required, Position(required, name)) ELSE required

RemoveProperty(doc_index, prop_index) ==
    /\ HasProp(doc_index, prop_index)
    /\ document_types' = [document_types EXCEPT
            ![doc_index].required = RequiredAfterRemove(@, document_types[doc_index].properties[prop_index].name),
            ![doc_index].properties = RemoveAt(@, prop_index)]
    /\ UNCHANGED others

RemoveIndex(doc_index, index_index) ==
    /\ doc_index \in DocIndices /\ index_index \in IndexIndices(doc_index)
    /\ document_types' = [document_types EXCEPT ![doc_index].indices = RemoveAt(@, index_index)]
    /\ UNCHANGED others

AddIndexProperty(doc_index, index_index) ==
    /\ doc_index \in DocIndices /\ index_index \in IndexIndices(doc_index)
    /\ Len(document_types[doc_index].indices[index_index].properties) < MaxIndexProps
    /\ document_types' = [document_types EXCEPT ![doc_index].indices[index_index].properties = Append(@, IndexPropertiesDefault)]
    /\ UNCHANGED others

\* generate_json_object, then validate on what it returned.
SetExported(exported, answer) ==
    /\ ~ answer.ok => Len(error_messages_ai) < MaxErrs
    /\ document_types' = exported.document_types
    /\ json_object' = exported.json_arr
    /\ schema' = JsonText(exported.json_arr)
    /\ error_messages' \in validate(error_messages_ai, answer)
    /\ error_messages_ai' = ValidateAiMessages(error_messages_ai, answer)
    /\ imported_json' = EmptyString

ExportAndValidate(doc_types, answer) == SetExported(generate_json_object(doc_types), answer)

Submit(answer) ==
    /\ ExportAndValidate(document_types, answer)
    /\ UNCHANGED ai_vars

UpdateName(index, name) ==
    /\ index \in DocIndices
    /\ document_types' = [document_types EXCEPT ![index].name = name]
    /\ UNCHANGED others

UpdateComment(index, comment) ==
    /\ index \in DocIndices
    /\ document_types' = [document_types EXCEPT ![index].comment = comment]
    /\ UNCHANGED others

UpdatePropertyName(doc_index, prop_index, name) ==
    /\ HasProp(doc_index, prop_index)
    /\ SetProperty(doc_index, prop_index, [document_types[doc_index].properties[prop_index] EXCEPT !.name = name])

UpdateIndexName(doc_index, index_index, name) ==
    /\ doc_index \in DocIndices /\ index_index \in IndexIndices(doc_index)
    /\ document_types' = [document_types EXCEPT ![doc_index].indices[index_index].name = name]
    /\ UNCHANGED others

UpdateIndexProperty(doc_index, index_index, prop_index, prop) ==
    /\ doc_index \in DocIndices /\ index_index \in IndexIndices(doc_index)
    /\ prop_index \in 1..Len(document_types[doc_index].indices[index_index].properties)
    /\ document_types' = [document_types EXCEPT ![doc_index].indices[index_index].properties[prop_index] = <<prop, @[2]>>]
    /\ UNCHANGED others

\* The fields the handler copies from new_property.
PropertyReplaced(prop, new_property) == new_property

PropertyWithType(prop, new_property) ==
    [prop EXCEPT !.data_type = new_property.data_type,
                 !.min_length = new_property.min_length,
                 !.max_length = new_property.max_length,
                 !.pattern = new_property.pattern,
                 !.format = new_property.format,
                 !.minimum = new_property.minimum,
                 !.maximum = new_property.maximum,
                 !.byte_array = new_property.byte_array,
                 !.min_items = new_property.min_items,
                 !.max_items = new_property.max_items,
                 !.min_properties = new_property.min_properties,
                 !.max_properties = new_property.max_properties]

\* The view sends default_additional_properties of the selected type.
UpdatePropertyType(doc_index, prop_index, data_type) ==
    /\ HasProp(doc_index, prop_index)
    /\ SetProperty(doc_index, prop_index,
                   PropertyWithType(document_types[doc_index].properties[prop_index], default_additional_properties(data_type)))

UpdateIndexUnique(doc_index, index_index, unique) ==
    /\ doc_index \in DocIndices /\ index_index \in IndexIndices(doc_index)
    /\ document_types' = [document_types EXCEPT ![doc_index].indices[index_index].unique = unique]
    /\ UNCHANGED others

UpdatePropertyRequired(doc_index, prop_index, required) ==
    /\ HasProp(doc_index, prop_index)
    /\ SetProperty(doc_index, prop_index, [document_types[doc_index].properties[prop_index] EXCEPT !.required = required])

UpdateSystemPropertiesRequired(doc_index, system_prop, required) ==
    /\ doc_index \in DocIndices
    /\ system_prop \in {0, 1}
    /\ document_types' = IF system_prop = 0
                         THEN [document_types EXCEPT ![doc_index].created_at_required = required]
                         ELSE [document_types EXCEPT ![doc_index].updated_at_required = required]
    /\ UNCHANGED others

UpdatePropertyDescription(doc_index, prop_index, description) ==
    /\ HasProp(doc_index, prop_index)
    /\ SetProperty(doc_index, prop_index, [document_types[doc_index].properties[prop_index] EXCEPT !.description = Some(description)])

UpdatePropertyComment(doc_index, prop_index, comment) ==
    /\ HasProp(doc_index, prop_index)
    /\ SetProperty(doc_index, prop_index, [document_types[doc_index].properties[prop_index] EXCEPT !.comment = Some(comment)])

UpdateStringPropertyMinLength(doc_index, prop_index, min_length) ==
    /\ HasPropOfType(doc_index, prop_index, "String")
    /\ SetProperty(doc_index, prop_index, [document_types[doc_index].properties[prop_index] EXCEPT !.min_length = min_length])

UpdateStringPropertyMaxLength(doc_index, prop_index, max_length) ==
    /\ HasPropOfType(doc_index, prop_index, "String")
    /\ SetProperty(doc_index, prop_index, [document_types[doc_index].properties[prop_index] EXCEPT !.max_length = max_length])

UpdateStringPropertyPattern(doc_index, prop_index, pattern) ==
    /\ HasPropOfType(doc_index, prop_index, "String")
    /\ SetProperty(doc_index, prop_index, [document_types[doc_index].properties[prop_index] EXCEPT !.pattern = Some(pattern)])

UpdateStringPropertyFormat(doc_index, prop_index, format) ==
    /\ HasPropOfType(doc_index, prop_index, "String")
    /\ SetProperty(doc_index, prop_index, [document_types[doc_index].properties[prop_index] EXCEPT !.format = Some(format)])

UpdateIntegerPropertyMinimum(doc_index, prop_index, minimum) ==
    /\ HasPropOfType(doc_index, prop_index, "Integer")
    /\ SetProperty(doc_index, prop_index, [document_types[doc_index].properties[prop_index] EXCEPT !.minimum = minimum])

UpdateIntegerPropertyMaximum(doc_index, prop_index, maximum) ==
    /\ HasPropOfType(doc_index, prop_index, "Integer")
    /\ SetProperty(doc_index, prop_index, [document_types[doc_index].properties[prop_index] EXCEPT !.maximum = maximum])

UpdateArrayPropertyMinItems(doc_index, prop_index, min_items) ==
    /\ HasPropOfType(doc_index, prop_index, "Array")
    /\ SetProperty(doc_index, prop_index, [document_types[doc_index].properties[prop_index] EXCEPT !.min_items = min_items])

UpdateArrayPropertyMaxItems(doc_index, prop_index, max_items) ==
    /\ HasPropOfType(doc_index, prop_index, "Array")
    /\ SetProperty(doc_index, prop_index, [document_types[doc_index].properties[prop_index] EXCEPT !.max_items = max_items])

UpdateArrayPropertyCMT(doc_index, prop_index, cmt) ==
    /\ HasPropOfType(doc_index, prop_index, "Array")
    /\ SetProperty(doc_index, prop_index, [document_types[doc_index].properties[prop_index] EXCEPT !.content_media_type = Some(cmt)])

UpdateObjectPropertyMinProperties(doc_index, prop_index, min_properties) ==
    /\ HasPropOfType(doc_index, prop_index, "Object")
    /\ SetProperty(doc_index, prop_index, [document_types[doc_index].properties[prop_index] EXCEPT !.min_properties = min_properties])

UpdateObjectPropertyMaxProperties(doc_index, prop_index, max_properties) ==
    /\ HasPropOfType(doc_index, prop_index, "Object")
    /\ SetProperty(doc_index, prop_index, [document_types[doc_index].properties[prop_index] EXCEPT !.max_properties = max_properties])

RecPropertyNew == [PropertyDefault EXCEPT !.rec_required = Some(<<>>)]

\* "Add inner property" is rendered for an Object property.
AddRecProperty(doc_index, prop_index) ==
    /\ HasPropOfType(doc_index, prop_index, "Object")
    /\ Len(RecProps(doc_index, prop_index)) < MaxRecProps
    /\ SetProperty(doc_index, prop_index,
                   [document_types[doc_index].properties[prop_index] EXCEPT !.properties = Some(Append(RecProps(doc_index, prop_index), RecPropertyNew))])

RemoveRecProperty(doc_index, prop_index, rec_prop_index) ==
    /\ HasRec(doc_index, prop_index, rec_prop_index)
    /\ SetProperty(doc_index, prop_index,
                   [document_types[doc_index].properties[prop_index] EXCEPT !.properties = Some(RemoveAt(Unwrap(@), rec_prop_index))])

UpdateRecPropertyName(doc_index, prop_index, rec_prop_index, name) ==
    /\ HasRec(doc_index, prop_index, rec_prop_index)
    /\ SetRecProperty(doc_index, prop_index, rec_prop_index, [RecProps(doc_index, prop_index)[rec_prop_index] EXCEPT !.name = name])

RecPropertyWithType(rec_prop, data_type) == [rec_prop EXCEPT !.data_type = data_type]

UpdateRecPropertyType(doc_index, prop_index, rec_prop_index, data_type) ==
    /\ HasRec(doc_index, prop_index, rec_prop_index)
    /\ SetRecProperty(doc_index, prop_index, rec_prop_index, RecPropertyWithType(RecProps(doc_index, prop_index)[rec_prop_index], data_type))

UpdateRecPropertyRequired(doc_index, prop_index, rec_prop_index, required) ==
    /\ HasRec(doc_index, prop_index, rec_prop_index)
    /\ SetRecProperty(doc_index, prop_index, rec_prop_index, [RecProps(doc_index, prop_index)[rec_prop_index] EXCEPT !.required = required])

UpdateRecPropertyDescription(doc_index, prop_index, rec_prop_index, description) ==
    /\ HasRec(doc_index, prop_index, rec_prop_index)
    /\ SetRecProperty(doc_index, prop_index, rec_prop_index, [RecProps(doc_index, prop_index)[rec_prop_index] EXCEPT !.description = Some(description)])

UpdateRecPropertyComment(doc_index, prop_index, rec_prop_index, comment) ==
    /\ HasRec(doc_index, prop_index, rec_prop_index)
    /\ SetRecProperty(doc_index, prop_index, rec_prop_index, [RecProps(doc_index, prop_index)[rec_prop_index] EXCEPT !.comment = Some(comment)])

UpdateStringRecPropertyMinLength(doc_index, prop_index, rec_prop_index, min_length) ==
    /\ HasRecOfType(doc_index, prop_index, rec_prop_index, "String")
    /\ SetRecProperty(doc_index, prop_index, rec_prop_index, [RecProps(doc_index, prop_index)[rec_prop_index] EXCEPT !.min_length = min_length])

UpdateStringRecPropertyMaxLength(doc_index, prop_index, rec_prop_index, max_length) ==
    /\ HasRecOfType(doc_index, prop_index, rec_prop_index, "String")
    /\ SetRecProperty(doc_index, prop_index, rec_prop_index, [RecProps(doc_index, prop_index)[rec_prop_index] EXCEPT !.max_length = max_length])

UpdateStringRecPropertyPattern(doc_index, prop_index, rec_prop_index, pattern) ==
    /\ HasRecOfType(doc_index, prop_index, rec_prop_index, "String")
    /\ SetRecProperty(doc_index, prop_index, rec_prop_index, [RecProps(doc_index, prop_index)[rec_prop_index] EXCEPT !.pattern = Some(pattern)])

UpdateStringRecPropertyFormat(doc_index, prop_index, rec_prop_index, format) ==
    /\ HasRecOfType(doc_index, prop_index, rec_prop_index, "String")
    /\ SetRecProperty(doc_index, prop_index, rec_prop_index, [RecProps(doc_index, prop_index)[rec_prop_index] EXCEPT !.format = Some(format)])

UpdateIntegerRecPropertyMaximum(doc_index, prop_index, rec_prop_index, maximum) ==
    /\ HasRecOfType(doc_index, prop_index, rec_prop_index, "Integer")
    /\ SetRecProperty(doc_index, prop_index, rec_prop_index, [RecProps(doc_index, prop_index)[rec_prop_index] EXCEPT !.maximum = maximum])

UpdateIntegerRecPropertyMinimum(doc_index, prop_index, rec_prop_index, minimum) ==
    /\ HasRecOfType(doc_index, prop_index, rec_prop_index, "Integer")
    /\ SetRecProperty(doc_index, prop_index, rec_prop_index, [RecProps(doc_index, prop_index)[rec_prop_index] EXCEPT !.minimum = minimum])

UpdateArrayRecPropertyMinItems(doc_index, prop_index, rec_prop_index, min_items) ==
    /\ HasRecOfType(doc_index, prop_index, rec_prop_index, "Array")
    /\ SetRecProperty(doc_index, prop_index, rec_prop_index, [RecProps(doc_index, prop_index)[rec_prop_index] EXCEPT !.min_items = min_items])

UpdateArrayRecPropertyMaxItems(doc_index, prop_index, rec_prop_index, max_items) ==
    /\ HasRecOfType(doc_index, prop_index, rec_prop_index, "Array")
    /\ SetRecProperty(doc_index, prop_index, rec_prop_index, [RecProps(doc_index, prop_index)[rec_prop_index] EXCEPT !.max_items = max_items])

UpdateArrayRecPropertyCMT(doc_index, prop_index, rec_prop_index, cmt) ==
    /\ HasRecOfType(doc_index, prop_index, rec_prop_index, "Array")
    /\ SetRecProperty(doc_index, prop_index, rec_prop_index, [RecProps(doc_index, prop_index)[rec_prop_index] EXCEPT !.content_media_type = Some(cmt)])

UpdateObjectRecPropertyMinProperties(doc_index, prop_index, rec_prop_index, min_props) ==
    /\ HasRecOfType(doc_index, prop_index, rec_prop_index, "Object")
    /\ SetRecProperty(doc_index, prop_index, rec_prop_index, [RecProps(doc_index, prop_index)[rec_prop_index] EXCEPT !.min_properties = min_props])

UpdateObjectRecPropertyMaxProperties(doc_index, prop_index, rec_prop_index, max_props) ==
    /\ HasRecOfType(doc_index, prop_index, rec_prop_index, "Object")
    /\ SetRecProperty(doc_index, prop_index, rec_prop_index, [RecProps(doc_index, prop_index)[rec_prop_index] EXCEPT !.max_properties = max_props])

UpdateImportedJson(import) ==
    /\ imported_json' = import
    /\ schema' = import
    /\ UNCHANGED <<document_types, json_object, error_messages, error_messages_ai, ai_vars>>

\* parse_imported_json, generate_json_object, validate; the handler ends at
\* a panic of parse_imported_json.
Import(order, answer) ==
    /\ order \in Orders(Len(ParsedEntries(imported_json)))
    /\ IF ImportPanics(ParsedEntries(imported_json))
       THEN /\ json_object' = parse_until_panic(imported_json, order).json_object
            /\ document_types' = parse_until_panic(imported_json, order).document_types
            /\ panicked' = TRUE
            /\ UNCHANGED <<imported_json, error_messages, schema, error_messages_ai, prompt, temp_prompt, history, loading, llm_vars>>
       ELSE /\ ExportAndValidate(parse_imported_json(imported_json, order).document_types, answer)
            /\ UNCHANGED ai_vars

Clear ==
    /\ json_object' = <<>>
    /\ imported_json' = EmptyString
    /\ error_messages' = <<>>
    /\ UNCHANGED <<document_types, schema, error_messages_ai, ai_vars>>

UpdatePrompt(val) ==
    /\ prompt' = val
    /\ UNCHANGED <<document_types, json_object, imported_json, error_messages, schema, error_messages_ai, temp_prompt, history, loading, llm_vars, panicked>>

\* The prompt GenerateSchema composes: the preamble, the current schema for
\* the second preamble, the text of the input box.
ComposedPrompt ==
    IF schema.empty
    THEN [pre |-> "FIRST_PROMPT_PRE", schema |-> None, text |-> prompt]
    ELSE [pre |-> "SECOND_PROMPT_PRE", schema |-> Some(schema), text |-> prompt]

\* spawn_local starts the call, send_message queues ClearInput.
GenerateSchema ==
    /\ Len(requests) + Len(received) < MaxRequests
    /\ temp_prompt' = Some(prompt)
    /\ error_messages_ai' = <<>>
    /\ loading' = TRUE
    /\ requests' = Append(requests, ComposedPrompt)
    /\ queue' = Append(queue, "ClearInput")
    /\ UNCHANGED <<document_types, json_object, imported_json, error_messages, prompt, schema, history, received, panicked>>

ClearInput ==
    /\ queue /= <<>>
    /\ Head(queue) = "ClearInput"
    /\ queue' = Tail(queue)
    /\ prompt' = ""
    /\ UNCHANGED <<document_types, json_object, imported_json, error_messages, schema, error_messages_ai, temp_prompt, history, loading, requests, received, panicked>>

\* What call_openai returns: Ok(schema), a text that parses as JSON and
\* runs from a '{' to a '}', or Err(err).
Ok(text) == [ok |-> TRUE, schema |-> text, err |-> ""]
Err(err) == [ok |-> FALSE, schema |-> EmptyString, err |-> err]

OpenAiMessage(err) == [kind |-> "OpenAI", summary |-> err, path |-> ""]

\* A failure that adds its message to the list.
AppendedAiMessages(ai, err) == Append(ai, OpenAiMessage(err))

\* self.error_messages_ai = vec![err.to_string()]
FailedAiMessages(ai, err) == <<OpenAiMessage(err)>>

\* if let Some(temp_prompt) = self.temp_prompt.take() { self.history.push(temp_prompt) }
HistoryWithSaved == IF IsSome(temp_prompt) THEN Append(history, Unwrap(temp_prompt)) ELSE history

\* A completion that leaves the tree as it is.
KeptTree(text, order) == document_types

\* The tree parse_imported_json reads from the returned schema.
ReceivedTree(text, order) == parse_imported_json(text, order).document_types

\* The call for requests[i] returns `result`; the callback emits
\* ReceiveSchema(result).  The handler ends at a panic of
\* parse_imported_json, before loading is reset.
ReceiveSchema(i, result, order, answer) ==
    /\ i \in 1..Len(requests)
    /\ requests' = RemoveAt(requests, i)
    /\ received' = Append(received, [result |-> result, pending |-> Len(requests) - 1])
    /\ UNCHANGED <<prompt, queue>>
    /\ IF result.ok
       THEN /\ order \in Orders(Len(ParsedEntries(result.schema)))
            /\ history' = HistoryWithSaved
            /\ temp_prompt' = None
            /\ IF ImportPanics(ParsedEntries(result.schema))
               THEN /\ schema' = result.schema
                    /\ imported_json' = result.schema
                    /\ json_object' = parse_until_panic(result.schema, order).json_object
                    /\ document_types' = parse_until_panic(result.schema, order).document_types
                    /\ panicked' = TRUE
                    /\ UNCHANGED <<error_messages, error_messages_ai, loading>>
               ELSE /\ ExportAndValidate(ReceivedTree(result.schema, order), answer)
                    /\ loading' = FALSE
                    /\ UNCHANGED panicked
       ELSE /\ error_messages_ai' = FailedAiMessages(error_messages_ai, result.err)
            /\ loading' = FALSE
            /\ UNCHANGED <<document_types, json_object, imported_json, error_messages, schema, temp_prompt, history, panicked>>

(***************************************************************************)
(* call_openai.  A response is what fetch gives back: whether the fetch    *)
(* and the reading of the body succeeded, whether the status is 2xx,       *)
(* whether the body parses as JSON, and the string at                      *)
(* choices[0].message.content ("" when there is none).  The content is a   *)
(* sequence of characters: "{", "}", and "k", which stands for the member  *)
(* "a":{"type":"object"}.                                                  *)
(***************************************************************************)
Chars == {"{", "}", "k"}

Contents == UNION {[1..n -> Chars] : n \in 0..MaxContent}

Responses ==
    {[fetched |-> TRUE, ok |-> TRUE, json |-> TRUE, content |-> c] : c \in Contents}
        \cup {[fetched |-> f, ok |-> o, json |-> j, content |-> <<>>] : f, o, j \in {TRUE, FALSE}}

\* str::find and str::rfind: Some(index of the first, of the last) or None.
Find(s, c) == IF Contains(s, c) THEN Some(CHOOSE i \in 1..Len(s) : s[i] = c /\ \A j \in 1..(i - 1) : s[j] /= c) ELSE None
RFind(s, c) == IF Contains(s, c) THEN Some(CHOOSE i \in 1..Len(s) : s[i] = c /\ \A j \in (i + 1)..Len(s) : s[j] /= c) ELSE None

\* serde_json::from_str::<Value> on a string of these characters: an object
\* of no member or of the one member.
ParsesAsJson(s) == s = <<"{", "}">> \/ s = <<"{", "k", "}">>

\* The JSON text a parseable string is.
SchemaOf(s) == IF s = <<"{", "}">> THEN JsonText(<<>>) ELSE JsonText(<<<<"a", JObj(<<<<"type", JStr("object")>>>>)>>>>)

Returned(result) == [raised |-> FALSE, result |-> result]
Raised == [raised |-> TRUE, result |-> Err("")]

\* &schema_text[start..=end] panics when start is beyond end + 1; the
\* unwrap() of the parse of a 2xx body panics when the body is no JSON.
call_openai(response) ==
    IF ~ response.fetched
    THEN Returned(Err("Fetch request failed"))
    ELSE IF ~ response.ok
    THEN Returned(Err("HTTP error from OpenAI"))
    ELSE IF ~ response.json
    THEN Raised
    ELSE LET schema_text == response.content
             start == Find(schema_text, "{")
             end == RFind(schema_text, "}")
         IN  IF IsSome(start) /\ IsSome(end)
             THEN IF Unwrap(start) > Unwrap(end) + 1
                  THEN Raised
                  ELSE IF ParsesAsJson(SubSeq(schema_text, Unwrap(start), Unwrap(end)))
                       THEN Returned(Ok(SchemaOf(SubSeq(schema_text, Unwrap(start), Unwrap(end)))))
                       ELSE Returned(Err("Extracted text is not valid JSON."))
             ELSE Returned(Err("No valid JSON found in the returned text."))

\* The call for requests[i] gets `response`: the future ends in a panic or
\* the callback emits ReceiveSchema(result).
Respond(i, response, order, answer) ==
    IF call_openai(response).raised
    THEN /\ i \in 1..Len(requests)
         /\ panicked' = TRUE
         /\ UNCHANGED <<document_types, json_object, imported_json, error_messages, prompt, schema, temp_prompt, history, loading, error_messages_ai, llm_vars>>
    ELSE ReceiveSchema(i, call_openai(response).result, order, answer)

(***************************************************************************)
(* Specifications.  Each one drives the editor with a part of the          *)
(* messages, so that its state space stays finite and small; Spec drives   *)
(* the structural messages with Submit, Import and Clear.                  *)
(***************************************************************************)
Booleans == {TRUE, FALSE}

\* Required flags at the top level: one document type, names, flags, Submit.
NextRequired ==
    \/ \E d \in DocIndices : AddProperty(d)
    \/ \E d \in DocIndices : \E p \in PropIndices(d) : RemoveProperty(d, p)
    \/ \E d \in DocIndices : \E p \in PropIndices(d) : \E n \in Names : UpdatePropertyName(d, p, n)
    \/ \E d \in DocIndices : \E p \in PropIndices(d) : \E b \in Booleans : UpdatePropertyRequired(d, p, b)
    \/ \E d \in DocIndices : \E s \in {0, 1} : \E b \in Booleans : UpdateSystemPropertiesRequired(d, s, b)
    \/ Submit(ValidatorPasses)

SpecRequired == Init /\ [][NextRequired]_vars

(***************************************************************************)
(* Steps and readings of the exported JSON used by the properties.         *)
(***************************************************************************)
SubmitStep == \E answer \in ValidatorAnswers : Submit(answer)

ImportStep == \E order \in Orders(Len(ParsedEntries(imported_json))) : \E answer \in ValidatorAnswers : Import(order, answer)

ExportStep == SubmitStep \/ ImportStep

\* The names a body's "required" array lists, as a sequence; <<>> when the key is absent.
ListedRequired(body) ==
    IF IsSome(MapGet(body.v, "required"))
    THEN [i \in 1..Len(Unwrap(MapGet(body.v, "required")).v) |-> Unwrap(MapGet(body.v, "required")).v[i].v]
    ELSE <<>>

SeqToSet(s) == {s[i] : i \in 1..Len(s)}

NoDuplicates(s) == \A i, j \in 1..Len(s) : s[i] = s[j] => i = j

FlaggedRequired(doc_type) ==
    {doc_type.properties[i].name : i \in {j \in 1..Len(doc_type.properties) : doc_type.properties[j].required}}
        \cup (IF doc_type.created_at_required THEN {"$createdAt"} ELSE {})
        \cup (IF doc_type.updated_at_required THEN {"$updatedAt"} ELSE {})

DistinctNames(properties) == \A i, j \in 1..Len(properties) : properties[i].name = properties[j].name => i = j

\* C1, as claimed: after every Submit, each exported document type lists as
\* required exactly the names of its properties flagged required and the
\* system names whose flags are set, and has no "required" key when there are
\* none.  Stated for the document types whose properties have pairwise
\* distinct names (two properties of one name share one exported entry).
C1_RequiredIsFlagged ==
    [][SubmitStep =>
        \A i \in 1..Len(json_object') :
            DistinctNames(document_types'[i].properties) =>
                /\ SeqToSet(ListedRequired(json_object'[i][2])) = FlaggedRequired(document_types'[i])
                /\ NoDuplicates(ListedRequired(json_object'[i][2]))
                /\ IsSome(MapGet(json_object'[i][2].v, "required")) <=> FlaggedRequired(document_types'[i]) /= {}]_vars

\* The tree the same edits build when no export ran in between: no handler
\* but the exporter adds to `required`.
WithoutExportHistory(doc_types) == [i \in 1..Len(doc_types) |-> [doc_types[i] EXCEPT !.required = <<>>]]

\* C9, as claimed: the export depends on the names, comments, system flags,
\* properties and indices of the tree alone, not on the exports that ran before.
C9_ExportDeterministic ==
    generate_json_object(document_types).json_arr = generate_json_object(WithoutExportHistory(document_types)).json_arr

\* Nested properties of one Object property: names, flags, types, Submit.
NestedTypes == {"String", "Array", "Object"}

NextNested ==
    \/ \E d \in DocIndices : Len(document_types[d].properties) < 1 /\ AddProperty(d)
    \/ \E d \in DocIndices : \E p \in PropIndices(d) : RemoveProperty(d, p)
    \/ \E d \in DocIndices : \E p \in PropIndices(d) : \E b \in Booleans : UpdatePropertyRequired(d, p, b)
    \/ \E d \in DocIndices : \E p \in PropIndices(d) : \E t \in NestedTypes : UpdatePropertyType(d, p, t)
    \/ \E d \in DocIndices : \E p \in PropIndices(d) : AddRecProperty(d, p)
    \/ \E d \in DocIndices : \E p \in PropIndices(d) : \E r \in RecIndices(d, p) : RemoveRecProperty(d, p, r)
    \/ \E d \in DocIndices : \E p \in PropIndices(d) : \E r \in RecIndices(d, p) : \E n \in Names : UpdateRecPropertyName(d, p, r, n)
    \/ \E d \in DocIndices : \E p \in PropIndices(d) : \E r \in RecIndices(d, p) : \E b \in Booleans : UpdateRecPropertyRequired(d, p, r, b)
    \/ \E d \in DocIndices : \E p \in PropIndices(d) : \E r \in RecIndices(d, p) : \E t \in NestedTypes : UpdateRecPropertyType(d, p, r, t)
    \/ Submit(ValidatorPasses)

SpecNested == Init /\ [][NextNested]_vars

\* Every property body of an exported object, nested bodies included.
PropertyBodiesOf(body) ==
    LET top == IF IsSome(MapGet(body.v, "properties")) THEN Unwrap(MapGet(body.v, "properties")).v ELSE <<>>
        nested(b) == IF IsSome(MapGet(b.v, "properties")) THEN Unwrap(MapGet(b.v, "properties")).v ELSE <<>>
    IN  {top[i][2] : i \in 1..Len(top)}
            \cup UNION {{nested(top[i][2])[j][2] : j \in 1..Len(nested(top[i][2]))} : i \in 1..Len(top)}

\* C4, as claimed: every property of type "array" of an exported contract,
\* nested ones included, has "byteArray": true.
C4_ArraysAreByteArrays ==
    [][ExportStep =>
        \A i \in 1..Len(json_object') :
            \A b \in PropertyBodiesOf(json_object'[i][2]) :
                MapGet(b.v, "type") = Some(JStr("array")) => MapGet(b.v, "byteArray") = Some(JBool(TRUE))]_vars

NoneRequiredNamed(properties, name) == \A i \in 1..Len(properties) : ~ (properties[i].name = name /\ properties[i].required)

RecRequiredOf(prop) == IF IsSome(prop.rec_required) THEN Unwrap(prop.rec_required) ELSE <<>>

RecPropsOf(prop) == IF IsSome(prop.properties) THEN Unwrap(prop.properties) ELSE <<>>

RemovePropertyForgets(d, p) ==
    RemoveProperty(d, p) =>
        /\ ~ Contains(document_types'[d].required, document_types[d].properties[p].name)
        /\ NoneRequiredNamed(document_types'[d].properties, document_types[d].properties[p].name)
            => ~ Contains(ListedRequired(DocumentBody(document_types'[d])), document_types[d].properties[p].name)

RemoveRecPropertyForgets(d, p, r) ==
    RemoveRecProperty(d, p, r) =>
        /\ ~ Contains(RecRequiredOf(document_types'[d].properties[p]), RecProps(d, p)[r].name)
        /\ NoneRequiredNamed(RecPropsOf(document_types'[d].properties[p]), RecProps(d, p)[r].name)
            => ~ Contains(ListedRequired(PropertyBody(document_types'[d].properties[p])), RecProps(d, p)[r].name)

\* C10, as claimed: a removal takes the removed name out of the owner's
\* required list, so that the next export lists it only when a remaining
\* property of that name is flagged required; at the top level and, for
\* RemoveRecProperty, in the parent's inner list.
C10_RemovedIsNotRequired ==
    [][\A d \in DocIndices : \A p \in PropIndices(d) :
            /\ RemovePropertyForgets(d, p)
            /\ \A r \in RecIndices(d, p) : RemoveRecPropertyForgets(d, p, r)]_vars

\* Type changes of the first property of the first document type and of its
\* nested property, among other properties, indices and document types.
TopTypes == {"String", "Array", "Object"}

RecTypes == {"String", "Array"}

NextType ==
    \/ AddDocumentType
    \/ AddProperty(1)
    \/ AddIndex(1)
    \/ UpdatePropertyName(1, 1, "a")
    \/ UpdatePropertyRequired(1, 1, TRUE)
    \/ UpdatePropertyDescription(1, 1, "x")
    \/ UpdatePropertyComment(1, 1, "x")
    \/ \E t \in TopTypes : UpdatePropertyType(1, 1, t)
    \/ UpdateArrayPropertyCMT(1, 1, "x")
    \/ AddRecProperty(1, 1)
    \/ UpdateRecPropertyName(1, 1, 1, "a")
    \/ UpdateRecPropertyRequired(1, 1, 1, TRUE)
    \/ UpdateRecPropertyDescription(1, 1, 1, "x")
    \/ \E t \in RecTypes : UpdateRecPropertyType(1, 1, 1, t)

SpecType == Init /\ [][NextType]_vars

TypeKeyed(prop) ==
    <<prop.min_length, prop.max_length, prop.pattern, prop.format, prop.minimum, prop.maximum, prop.byte_array,
      prop.min_items, prop.max_items, prop.content_media_type, prop.min_properties, prop.max_properties,
      prop.properties, prop.rec_required>>

PropertyTypeResets(d, p, t) ==
    (document_types[d].properties[p].data_type /= t /\ UpdatePropertyType(d, p, t))
        => TypeKeyed(document_types'[d].properties[p]) = TypeKeyed(default_additional_properties(t))

RecPropertyTypeResets(d, p, r, t) ==
    (RecProps(d, p)[r].data_type /= t /\ UpdateRecPropertyType(d, p, r, t))
        => TypeKeyed(RecPropsOf(document_types'[d].properties[p])[r]) = TypeKeyed(default_additional_properties(t))

\* C5, as claimed: after a change of a property's data type (top-level or
\* nested) every type-keyed optional field, nested properties and
\* rec_required included, holds the default of the new type.
C5_TypeChangeResets ==
    [][\A d \in DocIndices : \A p \in PropIndices(d) : \A t \in DataTypes :
            /\ PropertyTypeResets(d, p, t)
            /\ \A r \in RecIndices(d, p) : RecPropertyTypeResets(d, p, r, t)]_vars

Kept(prop) == <<prop.name, prop.required, prop.description, prop.comment>>

\* The tree with the property at (d, p) taken out.
WithoutProperty(doc_types, d, p) == [doc_types EXCEPT ![d].properties = RemoveAt(@, p)]

\* The tree with the nested property at (d, p, r) taken out.
WithoutRecProperty(doc_types, d, p, r) == [doc_types EXCEPT ![d].properties[p].properties = Some(RemoveAt(Unwrap(@), r))]

PropertyTypeFrame(d, p, t) ==
    UpdatePropertyType(d, p, t) =>
        /\ Len(document_types') = Len(document_types)
        /\ Len(document_types'[d].properties) = Len(document_types[d].properties)
        /\ Kept(document_types'[d].properties[p]) = Kept(document_types[d].properties[p])
        /\ WithoutProperty(document_types', d, p) = WithoutProperty(document_types, d, p)

RecPropertyTypeFrame(d, p, r, t) ==
    UpdateRecPropertyType(d, p, r, t) =>
        /\ Len(document_types') = Len(document_types)
        /\ Len(document_types'[d].properties) = Len(document_types[d].properties)
        /\ Len(RecPropsOf(document_types'[d].properties[p])) = Len(RecProps(d, p))
        /\ Kept(RecPropsOf(document_types'[d].properties[p])[r]) = Kept(RecProps(d, p)[r])
        /\ WithoutRecProperty(document_types', d, p, r) = WithoutRecProperty(document_types, d, p, r)

\* C6: a change of a property's data type (top-level or nested) keeps the
\* property's name, required flag, description and comment, and leaves every
\* other property, every index and every other document type as they were.
\* A step that leaves the whole tree as it was keeps all of it, so only the
\* steps that change the tree are examined.
C6_TypeChangeFrame ==
    [][\/ document_types' = document_types
       \/ \A d \in DocIndices : \A p \in PropIndices(d) :
            /\ \A t \in TopTypes : PropertyTypeFrame(d, p, t)
            /\ \A r \in RecIndices(d, p) : \A t \in RecTypes : RecPropertyTypeFrame(d, p, r, t)]_vars

\* A retyped property and a retyped nested property that carry a name, the
\* required flag and a description, beside another property, an index and
\* another document type.
C6_Witness ==
    /\ Len(document_types) >= 2
    /\ Len(document_types[1].properties) >= 2
    /\ Len(document_types[1].indices) >= 1
    /\ Kept(document_types[1].properties[1]) = <<"a", TRUE, Some("x"), Some("x")>>
    /\ document_types[1].properties[1].data_type = "Object"
    /\ Len(RecProps(1, 1)) >= 1
    /\ RecProps(1, 1)[1].data_type = "Array"
    /\ RecProps(1, 1)[1].name = "a"
    /\ RecProps(1, 1)[1].required
    /\ RecProps(1, 1)[1].description = Some("x")

\* Contracts a user can paste into the import box.
DescIndexContract ==
    JsonText(<<<<"a", JObj(<<<<"type", JStr("object")>>,
                             <<"properties", JObj(<<<<"a", JObj(<<<<"type", JStr("string")>>>>)>>>>)>>,
                             <<"indices", JArr(<<JObj(<<<<"name", JStr("a")>>,
                                                        <<"properties", JArr(<<JObj(<<<<"a", JStr("desc")>>>>)>>)>>>>)>>)>>,
                             <<"additionalProperties", JBool(FALSE)>>>>)>>>>)

ArrayContract ==
    JsonText(<<<<"a", JObj(<<<<"type", JStr("object")>>,
                             <<"properties", JObj(<<<<"a", JObj(<<<<"type", JStr("array")>>, <<"maxItems", JNum(Num(1))>>>>)>>>>)>>,
                             <<"additionalProperties", JBool(FALSE)>>>>)>>>>)

NotJson == [empty |-> FALSE, valid |-> FALSE, entries |-> <<>>]

ImportTexts == {DescIndexContract, ArrayContract, NotJson}

\* Imports, index edits and Submit, with every answer of the validator.
NextImport ==
    \/ \E import \in ImportTexts : UpdateImportedJson(import)
    \/ ImportStep
    \/ SubmitStep
    \/ \E d \in DocIndices : AddIndex(d)
    \/ \E d \in DocIndices : \E i \in IndexIndices(d) : AddIndexProperty(d, i)
    \/ \E d \in DocIndices : \E i \in IndexIndices(d) : \E p \in 1..Len(document_types[d].indices[i].properties) : UpdateIndexProperty(d, i, p, "a")

SpecImport == Init /\ [][NextImport]_vars

IndicesOf(body) == IF IsSome(MapGet(body.v, "indices")) THEN Unwrap(MapGet(body.v, "indices")).v ELSE <<>>

IndexPropertiesOf(index) == Unwrap(MapGet(index.v, "properties")).v

\* The sort values of an exported document type.
SortValues(body) ==
    UNION {UNION {{IndexPropertiesOf(IndicesOf(body)[i])[j].v[k][2] : k \in 1..Len(IndexPropertiesOf(IndicesOf(body)[i])[j].v)}
                  : j \in 1..Len(IndexPropertiesOf(IndicesOf(body)[i]))}
           : i \in 1..Len(IndicesOf(body))}

\* C7, as claimed: in every exported contract, after editor mutations and
\* imports, the sort value of every index property is "asc".
C7_SortIsAsc ==
    [][ExportStep => \A i \in 1..Len(json_object') : SortValues(json_object'[i][2]) \subseteq {JStr("asc")}]_vars

\* C8, as claimed: the list validate returns (stored in error_messages by
\* Submit and Import) holds no string twice, on the diagnostic path and on
\* the construction-error path.
C8_NoDuplicateMessages == [][ExportStep => NoDuplicates(error_messages')]_vars

\* Document-level edits, one property, Submit, and the import of what Submit
\* exported (the user pastes the export into the import box).
NextRoundTrip ==
    \/ AddDocumentType
    \/ UpdateName(2, "a")
    \/ UpdateComment(1, "x")
    \/ AddIndex(1)
    \/ 1 \in DocIndices /\ Len(document_types[1].properties) < 1 /\ AddProperty(1)
    \/ UpdatePropertyName(1, 1, "a")
    \/ \E t \in {"Array", "Object"} : UpdatePropertyType(1, 1, t)
    \/ Submit(ValidatorPasses)
    \/ UpdateImportedJson(schema)
    \/ \E order \in Orders(Len(ParsedEntries(imported_json))) : Import(order, ValidatorPasses)

SpecRoundTrip == Init /\ [][NextRoundTrip]_vars

\* The import box holds the export of the tree as it is.
ImportsOwnExport == imported_json = JsonText(generate_json_object(document_types).json_arr)

\* An optional string, read up to omission of the empty string.
NormalText(text) == IF IsSome(text) /\ Unwrap(text) /= "" THEN text ELSE None

NormalFields(prop) ==
    [name |-> prop.name, data_type |-> prop.data_type, required |-> prop.required,
     description |-> NormalText(prop.description), comment |-> NormalText(prop.comment),
     min_length |-> prop.min_length, max_length |-> prop.max_length,
     pattern |-> NormalText(prop.pattern), format |-> NormalText(prop.format),
     minimum |-> prop.minimum, maximum |-> prop.maximum, byte_array |-> prop.byte_array,
     min_items |-> prop.min_items, max_items |-> prop.max_items,
     content_media_type |-> NormalText(prop.content_media_type),
     min_properties |-> prop.min_properties, max_properties |-> prop.max_properties]

NormalProperty(prop) ==
    [fields |-> NormalFields(prop),
     properties |-> [r \in 1..Len(RecPropsOf(prop)) |-> NormalFields(RecPropsOf(prop)[r])]]

NormalDocument(doc_type) ==
    [name |-> doc_type.name, comment |-> doc_type.comment,
     created_at_required |-> doc_type.created_at_required, updated_at_required |-> doc_type.updated_at_required,
     properties |-> [p \in 1..Len(doc_type.properties) |-> NormalProperty(doc_type.properties[p])],
     indices |-> doc_type.indices]

\* Equal trees, up to the order of the document types, the omission of
\* empty strings and the stored required lists.
EquivalentTrees(imported, tree) ==
    /\ Len(imported) = Len(tree)
    /\ \E order \in Orders(Len(tree)) : \A i \in 1..Len(tree) : NormalDocument(imported[i]) = NormalDocument(tree[order[i]])

DistinctDocumentNames(doc_types) == \A i, j \in 1..Len(doc_types) : doc_types[i].name = doc_types[j].name => i = j

\* C2, as claimed: importing the export of a tree the editor produced gives
\* an equal tree (document types, comments, system flags, properties, nested
\* properties and indices), up to omission of empty-string fields.  Stated
\* for trees whose document types have pairwise distinct names.
C2_ImportOfExport ==
    [][(ImportStep /\ ImportsOwnExport /\ DistinctDocumentNames(document_types))
            => EquivalentTrees(document_types', document_types)]_vars

\* One property renamed and flagged between exports, and the import of what
\* Submit exported.
NextReexport ==
    \/ \E d \in DocIndices : Len(document_types[d].properties) < 1 /\ AddProperty(d)
    \/ \E n \in Names : UpdatePropertyName(1, 1, n)
    \/ \E b \in Booleans : UpdatePropertyRequired(1, 1, b)
    \/ \E t \in TopTypes : UpdatePropertyType(1, 1, t)
    \/ UpdateName(1, "a")
    \/ Submit(ValidatorPasses)
    \/ UpdateImportedJson(schema)
    \/ \E order \in Orders(Len(ParsedEntries(imported_json))) : Import(order, ValidatorPasses)

SpecReexport == Init /\ [][NextReexport]_vars

\* A JSON value with the order of object keys taken away.
RECURSIVE Canon(_)
Canon(value) ==
    CASE value.k = "obj" -> [k |-> "obj", v |-> {<<value.v[i][1], Canon(value.v[i][2])>> : i \in 1..Len(value.v)}]
      [] value.k = "arr" -> [k |-> "arr", v |-> [i \in 1..Len(value.v) |-> Canon(value.v[i])]]
      [] OTHER -> value

CanonContract(json_arr) == {<<json_arr[i][1], Canon(json_arr[i][2])>> : i \in 1..Len(json_arr)}

\* C3, as claimed: exporting the import of an export gives that export
\* again, up to the order of object keys, also for a tree whose property was
\* renamed or retyped after an earlier Submit.
C3_ReexportIsExport ==
    [][(ImportStep /\ ImportsOwnExport)
            => CanonContract(json_object') = CanonContract(generate_json_object(document_types).json_arr)]_vars

\* Optional strings of one property and of its document type: set, set back
\* to the empty string, Submit.
StringTypes == {"String", "Array"}

NextStrings ==
    \/ \E d \in DocIndices : Len(document_types[d].properties) < 1 /\ AddProperty(d)
    \/ \E d \in DocIndices : \E c \in Texts : UpdateComment(d, c)
    \/ \E d \in DocIndices : \E p \in PropIndices(d) : \E t \in StringTypes : UpdatePropertyType(d, p, t)
    \/ \E d \in DocIndices : \E p \in PropIndices(d) : \E x \in Texts : UpdatePropertyDescription(d, p, x)
    \/ \E d \in DocIndices : \E p \in PropIndices(d) : \E x \in Texts : UpdatePropertyComment(d, p, x)
    \/ \E d \in DocIndices : \E p \in PropIndices(d) : \E x \in Texts : UpdateStringPropertyPattern(d, p, x)
    \/ \E d \in DocIndices : \E p \in PropIndices(d) : \E x \in Texts : UpdateStringPropertyFormat(d, p, x)
    \/ \E d \in DocIndices : \E p \in PropIndices(d) : \E x \in Texts : UpdateArrayPropertyCMT(d, p, x)
    \/ Submit(ValidatorPasses)

SpecStrings == Init /\ [][NextStrings]_vars

OptionalStringKeys == {"description", "$comment", "pattern", "format", "contentMediaType"}

NoEmptyString(body) == \A key \in OptionalStringKeys : MapGet(body.v, key) /= Some(JStr(""))

\* C11, as claimed: no exported document type body and no exported property
\* body has "description", "$comment", "pattern", "format" or
\* "contentMediaType" with the empty string as its value.
C11_NoEmptyStrings ==
    \A i \in 1..Len(json_object) :
        /\ NoEmptyString(json_object[i][2])
        /\ \A b \in PropertyBodiesOf(json_object[i][2]) : NoEmptyString(b)

\* Imports of texts with malformed entries, into trees of one or two
\* document types.
DocumentText(name, body) == JsonText(<<<<name, JObj(body)>>>>)

PropertyText(prop_obj) == DocumentText("a", <<<<"type", JStr("object")>>, <<"properties", JObj(<<<<"a", JObj(prop_obj)>>>>)>>>>)

IndexText(index_obj) == DocumentText("a", <<<<"type", JStr("object")>>, <<"indices", JArr(<<JObj(index_obj)>>)>>>>)

UnknownTypeText == PropertyText(<<<<"type", JStr("text")>>>>)
NumberTypeText == PropertyText(<<<<"type", JNum(Num(1))>>>>)
NumberIndexNameText == IndexText(<<<<"name", JNum(Num(1))>>>>)
StringUniqueText == IndexText(<<<<"unique", JStr("x")>>>>)
NumberSortText == IndexText(<<<<"properties", JArr(<<JObj(<<<<"a", JNum(Num(1))>>>>)>>)>>>>)
NumberCommentText == DocumentText("a", <<<<"indices", JArr(<<>>)>>, <<"$comment", JNum(Num(1))>>>>)
\* A document type that is no object and a property that is no object.
SkippedText == JsonText(<<<<"", JNum(Num(1))>>, <<"a", JObj(<<<<"properties", JObj(<<<<"a", JStr("x")>>>>)>>>>)>>>>)
\* A well-formed document type beside a malformed one.
HalfMalformedText == JsonText(<<<<"", JObj(<<<<"type", JStr("object")>>>>)>>,
                               <<"a", JObj(<<<<"properties", JObj(<<<<"a", JObj(<<<<"type", JStr("text")>>>>)>>>>)>>>>)>>>>)

\* A text cut off after its first document type: it does not parse.
TruncatedText == [empty |-> FALSE, valid |-> FALSE, entries |-> <<<<"a", JObj(<<<<"type", JStr("object")>>>>)>>>>]

MalformedTexts ==
    <<NotJson, TruncatedText, UnknownTypeText, NumberTypeText, NumberIndexNameText, StringUniqueText,
      NumberSortText, NumberCommentText, SkippedText, HalfMalformedText>>

ImportOrFail == \E order \in Orders(Len(ParsedEntries(imported_json))) : \E answer \in ConstructionAnswers : Import(order, answer)

\* Nothing is handled after a panic.
NextMalformed ==
    \/ ~ panicked /\ \E i \in 1..Len(MalformedTexts) : UpdateImportedJson(MalformedTexts[i])
    \/ ~ panicked /\ ImportOrFail
    \/ ~ panicked /\ Submit(ValidatorPasses)
    \/ ~ panicked /\ AddDocumentType
    \/ ~ panicked /\ \E d \in DocIndices : UpdateName(d, "a")

SpecMalformed == Init /\ [][NextMalformed]_vars

\* C13: when the imported text does not parse as a JSON mapping, Import
\* leaves no document type at all and the export is the empty object.
C13_ParseFailureEmpties ==
    [][(~ imported_json.valid /\ ImportOrFail) =>
            /\ document_types' = <<>>
            /\ json_object' = <<>>
            /\ schema' = JsonText(<<>>)
            /\ ~ panicked']_vars

\* The empty contract after the Import of a text that does not parse.
C13_Witness ==
    /\ ~ panicked
    /\ document_types = <<>>
    /\ json_object = <<>>
    /\ schema = JsonText(<<>>)
    /\ imported_json = EmptyString

\* C12, as claimed: no Import raises, whatever text is imported.
C12_ImportNeverRaises == ~ panicked

\* Construction errors of the validator: required flags, Submit and Import
\* with a validator that passes the contract or fails to construct it.
NextConstruction ==
    \/ \E d \in DocIndices : AddProperty(d)
    \/ \E d \in DocIndices : \E b \in Booleans : UpdatePropertyRequired(d, 1, b)
    \/ \E d \in DocIndices : \E b \in Booleans : UpdateSystemPropertiesRequired(d, 0, b)
    \/ \E answer \in ConstructionAnswers : Submit(answer)
    \/ \E import \in {ArrayContract, NotJson} : UpdateImportedJson(import)
    \/ ImportOrFail

SpecConstruction == Init /\ [][NextConstruction]_vars

\* A Submit or an Import whose validation ends in the construction error.
FailingStep == Submit(ConstructionError) \/ \E order \in Orders(Len(ParsedEntries(imported_json))) : Import(order, ConstructionError)

\* C14, as claimed: after a Submit or an Import whose validation ends in a
\* construction error, the AI/validation error channel holds that error as
\* its single entry and the field validation list does not hold it.
C14_ConstructionErrorOnce ==
    [][FailingStep =>
            /\ error_messages_ai' = <<ConstructionMessage(ConstructionError.e)>>
            /\ ~ Contains(error_messages', ConstructionMessage(ConstructionError.e))]_vars

\* The tree a Submit or an Import leaves: the tree the exporter returns, for
\* Import the export of the parsed tree.
TreeAsExported ==
    \/ document_types' = generate_json_object(document_types).document_types
    \/ \E order \in Orders(Len(ParsedEntries(imported_json))) :
            document_types' = generate_json_object(parse_imported_json(imported_json, order).document_types).document_types

\* C15: a validator construction error leaves the tree as the export left
\* it and records the error in the AI-error channel.
C15_ConstructionErrorFrame ==
    [][FailingStep =>
            /\ TreeAsExported
            /\ Contains(error_messages_ai', ConstructionMessage(ConstructionError.e))]_vars

\* A construction error recorded beside a tree whose required list the
\* exporter has filled.
C15_Witness ==
    /\ Contains(error_messages_ai, ConstructionMessage(ConstructionError.e))
    /\ Len(document_types) = 1
    /\ document_types[1].required = <<"", "$createdAt">>

\* LLM round trips beside edits of the form: the prompt box, GenerateSchema,
\* the answers of call_openai in any order, and the messages of the form
\* that stay available while a request is in flight.  A queued message is
\* handled before any other.
LlmResults ==
    <<Ok(DocumentText("a", <<<<"type", JStr("object")>>>>)),
      Ok(JsonText(<<>>)),
      Err("e")>>

Idle == queue = <<>> /\ ~ panicked

ReceiveStep ==
    \E i \in 1..Len(requests) : \E r \in 1..Len(LlmResults) :
        \E order \in Orders(Len(ParsedEntries(LlmResults[r].schema))) : \E answer \in ConstructionAnswers :
            ReceiveSchema(i, LlmResults[r], order, answer)

NextLlm ==
    \/ Idle /\ \E val \in Texts : UpdatePrompt(val)
    \/ Idle /\ GenerateSchema
    \/ ClearInput
    \/ Idle /\ ReceiveStep
    \/ Idle /\ UpdateName(1, "a")
    \/ Idle /\ RemoveDocumentType(1)
    \/ Idle /\ Submit(ValidatorPasses)
    \/ Idle /\ Clear

SpecLlm == Init /\ [][NextLlm]_vars

\* What a successful completion of requests[i] does, as the round trip is
\* specified.
CompletesRequest(i, result, order, answer) ==
    (result.ok /\ ReceiveSchema(i, result, order, answer)) =>
        /\ history' = Append(history, requests[i].text)
        /\ document_types' = generate_json_object(parse_imported_json(result.schema, order).document_types).document_types
        /\ json_object' = generate_json_object(parse_imported_json(result.schema, order).document_types).json_arr
        /\ error_messages' \in validate(error_messages_ai, answer)
        /\ loading' = FALSE

\* C16, as claimed: every generation request that completes successfully
\* appends the user text submitted with that request to the history,
\* replaces the tree by the import of the returned schema, validates its
\* export and sets loading to false, also when several requests were
\* submitted before the first one completed.
C16_RoundTripCompletes ==
    [][\A i \in 1..Len(requests) : \A r \in 1..Len(LlmResults) :
            \A order \in Orders(Len(ParsedEntries(LlmResults[r].schema))) : \A answer \in ConstructionAnswers :
                CompletesRequest(i, LlmResults[r], order, answer)]_vars

\* C17, as claimed: a GenerateSchema handled while loading is true launches
\* no request and changes neither temp_prompt, error_messages_ai nor loading.
C17_SecondSubmitIgnored ==
    [][(loading /\ GenerateSchema) => UNCHANGED <<requests, temp_prompt, error_messages_ai, loading>>]_vars

\* C18, as claimed: while a request is in flight, no message but the
\* ReceiveSchema of a completion changes the contract tree.
C18_NoMutationInFlight ==
    [][requests /= <<>> => (document_types' = document_types \/ ReceiveStep)]_vars

\* The result that arrives is applied: the tree is the import of the
\* returned schema, as exported, or the AI-error list holds the error.
AppliesResult(i, result, order, answer) ==
    ReceiveSchema(i, result, order, answer) =>
        IF result.ok
        THEN /\ document_types' = generate_json_object(parse_imported_json(result.schema, order).document_types).document_types
             /\ schema' = JsonText(json_object')
        ELSE error_messages_ai' = <<OpenAiMessage(result.err)>>

\* C19: the result of every launched request is applied when it arrives,
\* so that with two requests in flight the tree after both have completed
\* is the import of the result that arrived last.
C19_LastWriteWins ==
    [][\A i \in 1..Len(requests) : \A r \in 1..Len(LlmResults) :
            \A order \in Orders(Len(ParsedEntries(LlmResults[r].schema))) : \A answer \in ConstructionAnswers :
                AppliesResult(i, LlmResults[r], order, answer)]_vars

\* Two requests were in flight together, both have completed successfully
\* with different schemas and the tree is the import of the second.
C19_Witness ==
    /\ requests = <<>>
    /\ Len(received) = 2
    /\ received[1].pending = 1
    /\ received[1].result = LlmResults[2]
    /\ received[2].result = LlmResults[1]
    /\ Len(document_types) = 1
    /\ document_types[1].name = "a"

\* C20, as claimed: GenerateSchema composes the first prompt exactly when
\* no contract with at least one document type is currently exported, and
\* the amendment prompt otherwise.
C20_FirstPromptWhenNothingExported ==
    [][GenerateSchema =>
            (requests'[Len(requests')].pre = "FIRST_PROMPT_PRE" <=> json_object = <<>>)]_vars

\* C21, as claimed: Clear resets the editor to the empty state: the tree is
\* the initial one, the JSON output, the imported text and the validation
\* errors are empty.
C21_ClearResets ==
    [][Clear =>
            /\ document_types' = <<DocumentTypeDefault>>
            /\ json_object' = <<>>
            /\ imported_json' = EmptyString
            /\ error_messages' = <<>>]_vars

\* A step whose validation ends in the construction error, or whose call
\* of the LLM ends in an error.
FailureStep ==
    \/ Submit(ConstructionError)
    \/ \E order \in Orders(Len(ParsedEntries(imported_json))) : Import(order, ConstructionError)
    \/ \E i \in 1..Len(requests) : \E r \in 1..Len(LlmResults) :
            \E order \in Orders(Len(ParsedEntries(LlmResults[r].schema))) : \E answer \in ConstructionAnswers :
                /\ ~ LlmResults[r].ok \/ ~ answer.ok
                /\ ReceiveSchema(i, LlmResults[r], order, answer)

FailedGeneration(i, result) ==
    (~ result.ok /\ ReceiveSchema(i, result, <<>>, ValidatorPasses)) =>
        error_messages_ai' = <<[kind |-> "OpenAI", summary |-> result.err, path |-> ""]>>

\* C22: every GenerateSchema empties the AI/network error list, a failed
\* generation leaves exactly its error message in it, and no other step but
\* a failure changes it.
C22_AiErrorsLifecycle ==
    [][/\ GenerateSchema => error_messages_ai' = <<>>
       /\ \A i \in 1..Len(requests) : \A r \in 1..Len(LlmResults) : FailedGeneration(i, LlmResults[r])
       /\ error_messages_ai' /= error_messages_ai => (GenerateSchema \/ FailureStep)]_vars

\* The second of two generations that failed one after the other, with no
\* GenerateSchema in between: the list holds its message alone.
C22_Witness ==
    /\ Len(received) = 2
    /\ ~ received[1].result.ok
    /\ ~ received[2].result.ok
    /\ received[1].pending = 1
    /\ error_messages_ai = <<OpenAiMessage("e")>>

\* Imports of one property with one numeric key, the integer written
\* ranging over both sides of the 32-bit ranges.
MaxHi == 2

WideNumbers == {[hi |-> hi, lo |-> lo] : hi \in (0 - MaxHi - 1)..MaxHi, lo \in {0, 1}}

UnsignedKeys == {"minLength", "maxLength", "minItems", "maxItems", "minProperties", "maxProperties"}
SignedKeys == {"minimum", "maximum"}

NumberText(key, n) == PropertyText(<<<<"type", JStr("string")>>, <<key, JNum(n)>>>>)

NextNumbers ==
    \/ \E key \in UnsignedKeys \cup SignedKeys : \E n \in WideNumbers : UpdateImportedJson(NumberText(key, n))
    \/ ImportOrFail

SpecNumbers == Init /\ [][NextNumbers]_vars

\* The integer hi * 2^31 + lo is outside 0 .. 2^32 - 1, outside -2^31 .. 2^31 - 1.
OutsideU32(n) == n.hi < 0 \/ n.hi > 1
OutsideI32(n) == n.hi < 0 - 1 \/ n.hi > 0

FieldOf(prop, key) ==
    CASE key = "minLength" -> prop.min_length [] key = "maxLength" -> prop.max_length
      [] key = "minItems" -> prop.min_items [] key = "maxItems" -> prop.max_items
      [] key = "minProperties" -> prop.min_properties [] key = "maxProperties" -> prop.max_properties
      [] key = "minimum" -> prop.minimum [] key = "maximum" -> prop.maximum

\* The body of the property "a" of the document type "a" of a text.
WrittenProperty(text) == Unwrap(MapGet(Unwrap(MapGet(text.entries[1][2].v, "properties")).v, "a")).v

OutOfRangeIsZero(key) ==
    (/\ IsSome(MapGet(WrittenProperty(imported_json), key))
     /\ IF key \in SignedKeys
        THEN OutsideI32(Unwrap(MapGet(WrittenProperty(imported_json), key)).v)
        ELSE OutsideU32(Unwrap(MapGet(WrittenProperty(imported_json), key)).v))
        => FieldOf(document_types'[1].properties[1], key) = Some(Num(0))

\* C23, as claimed: when Import reads a numeric field whose JSON integer
\* lies outside the field's 32-bit range, the stored value is 0.
C23_OutOfRangeIsZero ==
    [][(imported_json.valid /\ ImportOrFail) => \A key \in UnsignedKeys \cup SignedKeys : OutOfRangeIsZero(key)]_vars

\* Generation requests and the responses call_openai can be given.
RespondStep ==
    \E i \in 1..Len(requests) : \E response \in Responses :
        \E order \in Orders(Len(ParsedEntries(call_openai(response).result.schema))) :
            Respond(i, response, order, ValidatorPasses)

NextOpenAi ==
    \/ Idle /\ \E val \in Texts : UpdatePrompt(val)
    \/ Idle /\ GenerateSchema
    \/ ClearInput
    \/ Idle /\ RespondStep

SpecOpenAi == Init /\ [][NextOpenAi]_vars

\* The substring from the first "{" to the last "}", empty when there is
\* none.
FirstToLast(s) ==
    IF IsSome(Find(s, "{")) /\ IsSome(RFind(s, "}")) /\ Unwrap(Find(s, "{")) <= Unwrap(RFind(s, "}"))
    THEN SubSeq(s, Unwrap(Find(s, "{")), Unwrap(RFind(s, "}")))
    ELSE <<>>

\* The call returned and the callback emitted its result: that substring
\* when the response is a 2xx one and the substring parses, an error
\* otherwise.
ReturnsSchemaOrError(i, response, order) ==
    Respond(i, response, order, ValidatorPasses) =>
        /\ ~ panicked'
        /\ Len(received') = Len(received) + 1
        /\ IF response.fetched /\ response.ok /\ response.json /\ ParsesAsJson(FirstToLast(response.content))
           THEN received'[Len(received')].result = Ok(SchemaOf(FirstToLast(response.content)))
           ELSE ~ received'[Len(received')].result.ok

\* C24, as claimed: for every response call_openai returns the substring
\* from the first "{" to the last "}" of the content when that substring
\* parses as JSON, and an error otherwise; it never raises.
C24_ReturnsSchemaOrError ==
    [][\A i \in 1..Len(requests) : \A response \in Responses :
            \A order \in Orders(Len(ParsedEntries(call_openai(response).result.schema))) :
                ReturnsSchemaOrError(i, response, order)]_vars

\* The names of the nested properties flagged required.
FlaggedRecRequired(prop) ==
    {RecPropsOf(prop)[i].name : i \in {j \in 1..Len(RecPropsOf(prop)) : RecPropsOf(prop)[j].required}}

\* The body exported for the property of that name of the document body.
ExportedProperty(doc_body, name) == Unwrap(MapGet(Unwrap(MapGet(doc_body.v, "properties")).v, name))

InnerRequiredIsFlagged(doc_body, prop) ==
    (prop.data_type = "Object" /\ DistinctNames(RecPropsOf(prop))) =>
        /\ SeqToSet(ListedRequired(ExportedProperty(doc_body, prop.name))) = FlaggedRecRequired(prop)
        /\ IsSome(MapGet(ExportedProperty(doc_body, prop.name).v, "required")) <=> FlaggedRecRequired(prop) /= {}

\* C25, as claimed: after every Submit, the inner "required" array exported
\* for an Object property is exactly the set of names of its nested
\* properties whose required flag is true, and is omitted when that set is
\* empty.  Stated for the document types whose properties, and the Object
\* properties whose nested properties, have pairwise distinct names.
C25_InnerRequiredIsFlagged ==
    [][SubmitStep =>
        \A i \in 1..Len(json_object') :
            DistinctNames(document_types'[i].properties) =>
                \A p \in 1..Len(document_types'[i].properties) :
                    InnerRequiredIsFlagged(json_object'[i][2], document_types'[i].properties[p])]_vars

(***************************************************************************)
(* The import of a document body with, and without, a "required" array.    *)
(***************************************************************************)
\* A document "a" with the properties "" and "a", and the given further
\* entries of its body.
RequiredText(entries) ==
    DocumentText("a", <<<<"type", JStr("object")>>,
                        <<"properties", JObj(<<<<"", JObj(<<<<"type", JStr("string")>>>>)>>,
                                               <<"a", JObj(<<<<"type", JStr("string")>>>>)>>>>)>>>> \o entries)

RequiredArrayText(names) == RequiredText(<<<<"required", JArr([i \in 1..Len(names) |-> JStr(names[i])])>>>>)

\* Bodies without "required", with a "required" array, and with a
\* "required" that is a string.
RequiredTexts ==
    <<RequiredText(<<>>),
      RequiredArrayText(<<>>),
      RequiredArrayText(<<"$createdAt">>),
      RequiredArrayText(<<"$updatedAt", "a">>),
      RequiredArrayText(<<"", "$createdAt", "$updatedAt">>),
      RequiredText(<<<<"required", JStr("a")>>>>),
      RequiredText(<<<<"required", JStr("$createdAt")>>>>)>>

\* An Import whose export the validator accepts.
ImportAccepted == \E order \in Orders(Len(ParsedEntries(imported_json))) : Import(order, ValidatorPasses)

NextFlags ==
    \/ \E i \in 1..Len(RequiredTexts) : UpdateImportedJson(RequiredTexts[i])
    \/ ImportAccepted
    \/ Submit(ValidatorPasses)
    \/ \E d \in DocIndices : \E s \in {0, 1} : UpdateSystemPropertiesRequired(d, s, TRUE)
    \/ \E d \in DocIndices : \E p \in PropIndices(d) : UpdatePropertyRequired(d, p, TRUE)

SpecFlags == Init /\ [][NextFlags]_vars

\* The strings of the "required" array of a document body; none when the
\* key is absent or its value is no array.
RequiredNames(doc_type_obj) ==
    IF KeyIndex(doc_type_obj, "required") = 0 THEN {}
    ELSE IF doc_type_obj[KeyIndex(doc_type_obj, "required")][2].k /= "arr" THEN {}
    ELSE {item.v : item \in {x \in SeqToSet(doc_type_obj[KeyIndex(doc_type_obj, "required")][2].v) : x.k = "str"}}

\* The body the import box holds for the document type of that name.
ImportedBody(name) == MapFromEntries(imported_json.entries)[KeyIndex(MapFromEntries(imported_json.entries), name)][2].v

FlagsAsListed(doc_type, listed) ==
    /\ doc_type.created_at_required <=> "$createdAt" \in listed
    /\ doc_type.updated_at_required <=> "$updatedAt" \in listed
    /\ \A p \in 1..Len(doc_type.properties) : doc_type.properties[p].required <=> doc_type.properties[p].name \in listed

\* C26: after an Import, each document type has created_at_required true
\* iff the "required" array of its body contains "$createdAt",
\* updated_at_required true iff it contains "$updatedAt", and each of its
\* properties flagged required iff the array contains the property's name;
\* when "required" is absent or no array, all of these flags are false.
C26_RequiredFlagsImported ==
    [][(ImportAccepted /\ imported_json.valid /\ ~ panicked') =>
        \A i \in 1..Len(document_types') :
            FlagsAsListed(document_types'[i], RequiredNames(ImportedBody(document_types'[i].name)))]_vars

\* The Import of a body listing "$updatedAt" and "a" has set exactly those
\* flags of the document type "a".
C26_Witness ==
    /\ imported_json.empty
    /\ Len(document_types) = 1
    /\ document_types[1].name = "a"
    /\ Len(document_types[1].properties) = 2
    /\ document_types[1].properties[2].name = "a"
    /\ document_types[1].updated_at_required
    /\ ~ document_types[1].created_at_required
    /\ document_types[1].properties[2].required
    /\ ~ document_types[1].properties[1].required
    /\ json_object /= <<>>

\* The keys of the JSON object the exported text denotes: one per distinct
\* key of the text.
ExportedKeys(text) == {MapFromEntries(text.entries)[i][1] : i \in 1..Len(MapFromEntries(text.entries))}

\* C27, as claimed: after a Submit, the exported JSON object has as many
\* keys as the tree has document types, also when two document types have
\* the same, or the empty, name.
C27_OneEntryPerDocumentType ==
    [][SubmitStep => Cardinality(ExportedKeys(schema')) = Len(document_types')]_vars

\* C28, as claimed: after an Import, the comment of each document type is
\* the "$comment" of its body whenever the body has one, whether or not the
\* body has "indices".
C28_CommentImported ==
    [][(ImportAccepted /\ imported_json.valid /\ ~ panicked') =>
        \A i \in 1..Len(document_types') :
            KeyIndex(ImportedBody(document_types'[i].name), "$comment") /= 0 =>
                document_types'[i].comment
                    = ImportedBody(document_types'[i].name)[KeyIndex(ImportedBody(document_types'[i].name), "$comment")][2].v]_vars

\* C29, as claimed: in every reachable state, loading is true exactly when
\* at least one request has been launched and has not yet delivered its
\* ReceiveSchema.
C29_LoadingIffInFlight == ~ panicked => (loading <=> requests /= <<>>)

\* The keys of an exported property body agree with its "type".
KeysOfType(b) ==
    /\ MapGet(b.v, "type") /= Some(JStr("object")) => ~ IsSome(MapGet(b.v, "required"))
    /\ MapGet(b.v, "type") /= Some(JStr("array")) => ~ IsSome(MapGet(b.v, "contentMediaType"))

\* C30, as claimed: every exported property body carries only the type-keyed
\* keys of its data type: a body that is not an Object has no "required",
\* and a body that is not an Array has no "contentMediaType".
C30_TypeKeyedOnly ==
    \A i \in 1..Len(json_object) : \A b \in PropertyBodiesOf(json_object[i][2]) : KeysOfType(b)

OptionalNumbers == {None} \cup {Some(n) : n \in Numbers}

StructureStep ==
    \/ AddDocumentType
    \/ \E d \in DocIndices : AddProperty(d) \/ AddIndex(d) \/ RemoveDocumentType(d)
    \/ \E d \in DocIndices : \E p \in PropIndices(d) : RemoveProperty(d, p) \/ AddRecProperty(d, p)
    \/ \E d \in DocIndices : \E i \in IndexIndices(d) : RemoveIndex(d, i) \/ AddIndexProperty(d, i)
    \/ \E d \in DocIndices : \E p \in PropIndices(d) : \E r \in RecIndices(d, p) : RemoveRecProperty(d, p, r)

DocumentStep ==
    \/ \E d \in DocIndices : \E n \in Names : UpdateName(d, n)
    \/ \E d \in DocIndices : \E c \in Texts : UpdateComment(d, c)
    \/ \E d \in DocIndices : \E s \in {0, 1} : \E b \in Booleans : UpdateSystemPropertiesRequired(d, s, b)
    \/ \E d \in DocIndices : \E i \in IndexIndices(d) : \E n \in Names : UpdateIndexName(d, i, n)
    \/ \E d \in DocIndices : \E i \in IndexIndices(d) : \E b \in Booleans : UpdateIndexUnique(d, i, b)
    \/ \E d \in DocIndices : \E i \in IndexIndices(d) : \E p \in 1..Len(document_types[d].indices[i].properties) : \E n \in Names : UpdateIndexProperty(d, i, p, n)

PropertyStep ==
    \E d \in DocIndices : \E p \in PropIndices(d) :
        \/ \E n \in Names : UpdatePropertyName(d, p, n)
        \/ \E t \in DataTypes : UpdatePropertyType(d, p, t)
        \/ \E b \in Booleans : UpdatePropertyRequired(d, p, b)
        \/ \E x \in Texts : UpdatePropertyDescription(d, p, x) \/ UpdatePropertyComment(d, p, x)
        \/ \E x \in Texts : UpdateStringPropertyPattern(d, p, x) \/ UpdateStringPropertyFormat(d, p, x) \/ UpdateArrayPropertyCMT(d, p, x)
        \/ \E n \in OptionalNumbers : UpdateStringPropertyMinLength(d, p, n) \/ UpdateStringPropertyMaxLength(d, p, n)
        \/ \E n \in OptionalNumbers : UpdateIntegerPropertyMinimum(d, p, n) \/ UpdateIntegerPropertyMaximum(d, p, n)
        \/ \E n \in OptionalNumbers : UpdateArrayPropertyMinItems(d, p, n) \/ UpdateArrayPropertyMaxItems(d, p, n)
        \/ \E n \in OptionalNumbers : UpdateObjectPropertyMinProperties(d, p, n) \/ UpdateObjectPropertyMaxProperties(d, p, n)

RecPropertyStep ==
    \E d \in DocIndices : \E p \in PropIndices(d) : \E r \in RecIndices(d, p) :
        \/ \E n \in Names : UpdateRecPropertyName(d, p, r, n)
        \/ \E t \in DataTypes : UpdateRecPropertyType(d, p, r, t)
        \/ \E b \in Booleans : UpdateRecPropertyRequired(d, p, r, b)
        \/ \E x \in Texts : UpdateRecPropertyDescription(d, p, r, x) \/ UpdateRecPropertyComment(d, p, r, x)
        \/ \E x \in Texts : UpdateStringRecPropertyPattern(d, p, r, x) \/ UpdateStringRecPropertyFormat(d, p, r, x) \/ UpdateArrayRecPropertyCMT(d, p, r, x)
        \/ \E n \in OptionalNumbers : UpdateStringRecPropertyMinLength(d, p, r, n) \/ UpdateStringRecPropertyMaxLength(d, p, r, n)
        \/ \E n \in OptionalNumbers : UpdateIntegerRecPropertyMinimum(d, p, r, n) \/ UpdateIntegerRecPropertyMaximum(d, p, r, n)
        \/ \E n \in OptionalNumbers : UpdateArrayRecPropertyMinItems(d, p, r, n) \/ UpdateArrayRecPropertyMaxItems(d, p, r, n)
        \/ \E n \in OptionalNumbers : UpdateObjectRecPropertyMinProperties(d, p, r, n) \/ UpdateObjectRecPropertyMaxProperties(d, p, r, n)

\* Every handler of the form, the import box, the prompt box and the LLM
\* round trip.  A queued message is handled before any other; nothing is
\* handled after a panic.
FormStep ==
    \/ StructureStep
    \/ DocumentStep
    \/ PropertyStep
    \/ RecPropertyStep
    \/ SubmitStep
    \/ \E import \in ImportTexts \cup {schema} : UpdateImportedJson(import)
    \/ ImportStep
    \/ Clear
    \/ \E val \in Texts : UpdatePrompt(val)

Next ==
    \/ Idle /\ FormStep
    \/ Idle /\ GenerateSchema
    \/ ClearInput
    \/ Idle /\ ReceiveStep

Spec == Init /\ [][Next]_vars
====
